---- MODULE Spec2Model ----
(***************************************************************************)
(* A model of the code-evaluation pipeline of backend/evaluators:          *)
(*   - correctnessEvaluator.runCorrectnessEvaluation: the loop that runs   *)
(*     every test case of a problem in a child process and scores the run  *)
(*     (specifications Spec and SpecRerun);                                *)
(*   - reportGenerator.buildReport: the weighted overall score and grade   *)
(*     (specification SpecReport).                                         *)
(* Python floats are IEEE-754 doubles.  Where the code rounds or truncates *)
(* a float, the operators below reproduce the double arithmetic exactly    *)
(* with small integers (see ScoreOf and _computeOverallScore).             *)
(***************************************************************************)
EXTENDS Integers, Sequences, FiniteSets, TLC

\* ------------------------------------------------------------------------
\* Bounds of the model
\* ------------------------------------------------------------------------

\* Most test cases (visible + hidden) a problem has.
MaxCases == 2

\* The heaviest test-case weight; the other weights are 1 and 2.
BigWeight == 200

\* The dimension scores handed to buildReport range over
\* (100 - ScoreWindow)..100.
ScoreWindow == 10

\* ------------------------------------------------------------------------
\* Program constants
\* ------------------------------------------------------------------------

SANDBOX_TIMEOUT_SECONDS == 5

MAX_OUTPUT_CHARS == 500

\* ------------------------------------------------------------------------
\* Python values, JSON documents and strings
\* ------------------------------------------------------------------------

\* A Python/JSON value is [t, v]: t its type, v the sequence of its atoms.
\* An atom is [t, n]: the int n, or the str that is the decimal text of n.
IntAtom(n) == [t |-> "int", n |-> n]

StrAtom(n) == [t |-> "str", n |-> n]

PyNone == [t |-> "none", v |-> <<>>]

PyInt(n) == [t |-> "int", v |-> <<IntAtom(n)>>]

PyList(s) == [t |-> "list", v |-> s]

\* A string is modelled by what it says and how many characters it has.
Str(msg, len) == [msg |-> msg, len |-> len]

\* None where a string is expected.
NoDetail == Str("<None>", 0)

Min(a, b) == IF a <= b THEN a ELSE b

\* s[:n] of a string: at most n characters are kept.
Truncate(s, n) == Str(s.msg, Min(s.len, n))

\* prefix + s
Prefixed(prefix, s) == Str(prefix.msg, prefix.len + s.len)

\* dict.get(key, default)
Get(d, key, default) == IF key \in DOMAIN d THEN d[key] ELSE default

EmptyDict == [x \in {} |-> x]

\* ------------------------------------------------------------------------
\* Problems
\* ------------------------------------------------------------------------

Weights == {1, 2, BigWeight}

ExpectedValues == {PyList(<<IntAtom(1), IntAtom(2)>>)}

VisibleLabels == <<"visible-1", "visible-2", "visible-3", "visible-4">>

HiddenLabels == <<"hidden-1", "hidden-2", "hidden-3", "hidden-4">>

CaseChoices == [expected : ExpectedValues, ordered : BOOLEAN, weight : Weights]

TestCase(c, label) ==
    [label |-> label, expected |-> c.expected, ordered |-> c.ordered,
     weight |-> c.weight]

Problems ==
    UNION { UNION { { [testCases |-> [i \in 1..nv |-> TestCase(cv[i], VisibleLabels[i])],
                       hiddenTestCases |-> [i \in 1..nh |-> TestCase(ch[i], HiddenLabels[i])]]
                      : cv \in [1..nv -> CaseChoices], ch \in [1..nh -> CaseChoices] }
                    : nh \in 0..(MaxCases - nv) }
            : nv \in 0..MaxCases }

\* ------------------------------------------------------------------------
\* What a child process can write before it exits
\* ------------------------------------------------------------------------

\* The values a submission can return (or forge) as "result".
ResultValues ==
    { PyList(<<IntAtom(1), IntAtom(2)>>), PyList(<<IntAtom(2), IntAtom(1)>>) }

\* The last non-empty line of stdout, as json.loads sees it:
\*   kind "empty":  stdout is empty after strip()
\*   kind "text":   the line is not JSON
\*   kind "scalar": the line is JSON but not an object (7, "x", [1], null)
\*   kind "object": the line is a JSON object, json its keys and values
StdoutLine(kind, json, len) == [kind |-> kind, json |-> json, len |-> len]

\* The driver's own two records (lines 60 and 62 of the script).
DriverOk(r) == [status |-> "ok", result |-> r]

DriverError == [status |-> "error", error |-> Str("exception message", 20)]

\* Objects only a submission that prints its own line and exits can produce.
ForgedObjects ==
    { [status |-> "bogus"], [status |-> "ok"], [result |-> PyNone],
      [status |-> "pass"], [status |-> "error"] }

StdoutLines ==
    { StdoutLine("empty", EmptyDict, 0),
      StdoutLine("text", EmptyDict, 30),
      StdoutLine("scalar", EmptyDict, 1) }
    \cup { StdoutLine("object", DriverOk(r), 30) : r \in ResultValues }
    \cup { StdoutLine("object", DriverError, 50) }
    \cup { StdoutLine("object", o, 20) : o \in ForgedObjects }

StderrTexts == { Str("", 0), Str("Traceback", 40) }

\* stderr matters only when stdout is empty.
ProcOutputs ==
    { o \in [stdout : StdoutLines, stderr : StderrTexts] :
        o.stdout.kind # "empty" => o.stderr.len = 0 }

NoOutput == [stdout |-> StdoutLine("empty", EmptyDict, 0), stderr |-> Str("", 0)]

\* ------------------------------------------------------------------------
\* _valuesMatch
\* ------------------------------------------------------------------------

Abs(n) == IF n < 0 THEN -n ELSE n

\* Floats lie on a grid of 1e-7: the float [t |-> "float"] with atom n is
\* n * 1e-7, and FloatGrid units make 1.
FloatGrid == 10000000

\* float(x) in grid units; the conversion raises TypeError for None and for
\* a list (no str atom here is the text of a non-number).
CanFloat(x) == x.t \in {"int", "float", "str"}

ToFloat(x) == IF x.t = "float" THEN x.v[1].n ELSE x.v[1].n * FloatGrid

RECURSIVE InsertSorted(_, _)
InsertSorted(s, a) ==
    IF s = <<>> THEN <<a>>
    ELSE IF a.n <= Head(s).n THEN <<a>> \o s
    ELSE <<Head(s)>> \o InsertSorted(Tail(s), a)

RECURSIVE SortAtoms(_)
\* sorted(s) of atoms of one type (two sorted lists are equal exactly when
\* the lists hold the same atoms as often, whatever the total order).
SortAtoms(s) == IF s = <<>> THEN <<>> ELSE InsertSorted(SortAtoms(Tail(s)), Head(s))

\* sorted(s) raises TypeError when it has to compare an int with a str.
Orderable(s) == \A i, j \in 1..Len(s) : s[i].t = s[j].t

\* map(str, s): the text of the int n and the str "n" are the same string.
StrMap(s) == [i \in 1..Len(s) |-> StrAtom(s[i].n)]

\* _valuesMatch without the handler of lines 127-128: lists that sorted()
\* rejects do not match.
_valuesMatchSortedOnly(actual, expected, ordered) ==
    IF expected.t = "none" THEN actual.t = "none"
    ELSE IF expected.t = "list" /\ actual.t = "list"
    THEN IF ~ordered
         THEN /\ Orderable(actual.v) /\ Orderable(expected.v)
              /\ SortAtoms(actual.v) = SortAtoms(expected.v)
         ELSE actual = expected
    ELSE actual = expected

\* _valuesMatch with the test of line 124 dropped: lists are always sorted
\* before they are compared.
_valuesMatchUnordered(actual, expected, ordered) ==
    IF expected.t = "none" THEN actual.t = "none"
    ELSE IF expected.t = "list" /\ actual.t = "list"
    THEN IF Orderable(actual.v) /\ Orderable(expected.v)
         THEN SortAtoms(actual.v) = SortAtoms(expected.v)
         ELSE SortAtoms(StrMap(actual.v)) = SortAtoms(StrMap(expected.v))
    ELSE actual = expected

\* _valuesMatch with "return True" at line 115.
_valuesMatchNullAny(actual, expected, ordered) ==
    IF expected.t = "none" THEN TRUE
    ELSE IF expected.t = "list" /\ actual.t = "list"
    THEN IF ~ordered
         THEN IF Orderable(actual.v) /\ Orderable(expected.v)
              THEN SortAtoms(actual.v) = SortAtoms(expected.v)
              ELSE SortAtoms(StrMap(actual.v)) = SortAtoms(StrMap(expected.v))
         ELSE actual = expected
    ELSE actual = expected

_valuesMatch(actual, expected, ordered) ==
    IF expected.t = "none" THEN actual.t = "none"
    ELSE IF expected.t = "float" \/ actual.t = "float"
    THEN IF CanFloat(actual) /\ CanFloat(expected)
         THEN Abs(ToFloat(actual) - ToFloat(expected)) * 1000000 < FloatGrid
         ELSE FALSE
    ELSE IF expected.t = "list" /\ actual.t = "list"
    THEN IF ~ordered
         THEN IF Orderable(actual.v) /\ Orderable(expected.v)
              THEN SortAtoms(actual.v) = SortAtoms(expected.v)
              ELSE SortAtoms(StrMap(actual.v)) = SortAtoms(StrMap(expected.v))
         ELSE actual = expected
    ELSE actual = expected

\* ------------------------------------------------------------------------
\* The correctness score: int((earnedWeight / totalWeight) * 100)
\* ------------------------------------------------------------------------

RECURSIVE Pow2(_)
Pow2(n) == IF n = 0 THEN 1 ELSE 2 * Pow2(n - 1)

RECURSIVE GCD(_, _)
GCD(a, b) == IF b = 0 THEN a ELSE GCD(b, a % b)

RECURSIVE Pow2Mod(_, _)
\* 2^p mod b
Pow2Mod(p, b) == IF p = 0 THEN 1 % b ELSE (2 * Pow2Mod(p - 1, b)) % b

\* The binade of a/b for 0 < a < b: the largest j with 2^j <= a/b.
FractionBinade(a, b) == -(CHOOSE m \in 1..31 : a * Pow2(m) >= b /\ a * Pow2(m - 1) < b)

\* The binade of the doubles just below the integer k >= 1: the largest j
\* with 2^j < k.
BinadeBelow(k) == IF k = 1 THEN -1 ELSE CHOOSE j \in 0..30 : Pow2(j) < k /\ k <= Pow2(j + 1)

\* 1 when the double (e / t) * 100 falls just below the integer 100e/t, so
\* that int() gives one less; 0 otherwise.  Only a quotient that 100 turns
\* into an integer k can do this: e/t = a/b in lowest terms, b divides 100.
\* With j the binade of a/b, the double nearest a/b is a/b + d where
\* d * 2^(52-j) is -r/b or (b-r)/b for r = a * 2^(52-j) mod b; the product
\* is k + D * 2^-(52-j) with D = 100 * d * 2^(52-j), an integer, and it
\* rounds below k when D < 0 and -D is more than half the spacing U of the
\* doubles below k (a tie goes to k, whose mantissa is even).
FloatDeficit(e, t) ==
    IF e <= 0 \/ e >= t \/ (100 * e) % t # 0 THEN 0
    ELSE LET g == GCD(e, t)
             a == e \div g
             b == t \div g
             j == FractionBinade(a, b)
             r == (a * Pow2Mod(52 - j, b)) % b
             D == IF 2 * r < b THEN -((100 * r) \div b) ELSE (100 * (b - r)) \div b
             k == (100 * a) \div b
             U == Pow2(BinadeBelow(k) - j)
         IN  IF D < 0 /\ 2 * (-D) > U THEN 1 ELSE 0

\* ScoreOf with round() in place of int(): the nearest integer, halves up.
ScoreOfRounded(earnedWeight, totalWeight) ==
    IF totalWeight > 0
    THEN (200 * earnedWeight + totalWeight) \div (2 * totalWeight)
    ELSE 0

\* ScoreOf with // in place of /: int(earnedWeight // totalWeight) * 100.
ScoreOfIntegerDivision(earnedWeight, totalWeight) ==
    IF totalWeight > 0 THEN (earnedWeight \div totalWeight) * 100 ELSE 0

\* int() truncates; for a quotient that 100 does not turn into an integer
\* the rounding error of the double (below 1e-13) cannot reach the next
\* integer, which is at least 1/t away.
ScoreOf(earnedWeight, totalWeight) ==
    IF totalWeight > 0
    THEN (100 * earnedWeight) \div totalWeight - FloatDeficit(earnedWeight, totalWeight)
    ELSE 0

\* ------------------------------------------------------------------------
\* _runInSandbox: from what the child wrote to the dict (or other JSON
\* value) the function returns
\* ------------------------------------------------------------------------

\* What _runInSandbox returns: a dict d, or a JSON value that is no dict.
Dict(d) == [isDict |-> TRUE, d |-> d]

NotADict == [isDict |-> FALSE, d |-> EmptyDict]

\* The child exited by itself: lines 84-91 and the JSONDecodeError handler.
SandboxResult(out) ==
    IF out.stdout.kind = "empty"
    THEN LET stderrSnippet == Truncate(out.stderr, MAX_OUTPUT_CHARS)
         IN  Dict([status |-> "error",
                   error |-> IF stderrSnippet.len > 0 THEN stderrSnippet
                             ELSE Str("No output produced.", 19)])
    ELSE IF out.stdout.kind = "text"
    THEN Dict([status |-> "error",
               error |-> Prefixed(Str("Could not parse output: ", 24),
                                  Truncate(Str("stdout", out.stdout.len), MAX_OUTPUT_CHARS))])
    ELSE IF out.stdout.kind = "scalar" THEN NotADict
    ELSE Dict(out.stdout.json)

\* subprocess.run raised TimeoutExpired: the handler of line 93.
TimeoutResult ==
    Dict([status |-> "timeout", error |-> Str("Exceeded 5s time limit.", 23)])

\* ------------------------------------------------------------------------
\* runCorrectnessEvaluation: one pass of the loop body after the sandbox
\* returned (lines 186-204)
\* ------------------------------------------------------------------------

\* outcome["status"] raises TypeError on a value that is no dict and
\* KeyError on a dict without the key; outcome["result"] raises KeyError.
RecordRaises(out) ==
    \/ ~out.isDict
    \/ "status" \notin DOMAIN out.d
    \/ out.d.status = "ok" /\ "result" \notin DOMAIN out.d

CasePassed(tc, out) ==
    /\ out.d.status = "ok"
    /\ _valuesMatch(out.d.result, Get(tc, "expected", PyNone), Get(tc, "ordered", TRUE))

TestOutcome(tc, out) ==
    [label    |-> Get(tc, "label", "Unnamed test"),
     status   |-> IF out.d.status = "ok"
                  THEN IF CasePassed(tc, out) THEN "pass" ELSE "fail"
                  ELSE out.d.status,
     expected |-> Get(tc, "expected", PyNone),
     actual   |-> IF out.d.status = "ok" THEN out.d.result ELSE PyNone,
     error    |-> IF out.d.status # "ok" THEN Get(out.d, "error", NoDetail) ELSE NoDetail,
     hidden   |-> tc.hidden,
     weight   |-> Get(tc, "weight", 1)]

\* EarnedAfter with = in place of +=.
EarnedAfterAssign(earned, weight, passed) == IF passed THEN weight ELSE earned

\* if passed: earnedWeight += weight
EarnedAfter(earned, weight, passed) == IF passed THEN earned + weight ELSE earned

\* sum(1 for r in testResults if r["status"] == "pass")
PassCount(results) == Cardinality({i \in 1..Len(results) : results[i].status = "pass"})

\* ------------------------------------------------------------------------
\* reportGenerator: the weighted overall score in double arithmetic
\* ------------------------------------------------------------------------

\* A double met here is written [N, E] and stands for N/100 + E*u, where
\* u = 2^-55 / 5 and N is a multiple of 5.  0.50 is a double; the doubles
\* nearest to 0.20 and 0.15 are 0.20 + 2u and 0.15 - u.
SCORE_WEIGHTS ==
    [correctness |-> [N |-> 50, E |-> 0],
     complexity  |-> [N |-> 20, E |-> 2],
     style       |-> [N |-> 15, E |-> -1],
     security    |-> [N |-> 15, E |-> -1]]

\* N/100 + E*u >= 2^e, for E far below 1/u.
AtLeastPow2(N, E, e) ==
    LET l == IF e >= 0 THEN N ELSE N * Pow2(-e)
        r == IF e >= 0 THEN 100 * Pow2(e) ELSE 100
    IN  l > r \/ (l = r /\ E >= 0)

\* The binade of a positive value: the e with 2^e <= value < 2^(e+1).
Binade(N, E) == CHOOSE e \in -8..8 : AtLeastPow2(N, E, e) /\ ~AtLeastPow2(N, E, e + 1)

\* 2^k mod 5 and 2^k mod 10, for k >= 1.
Pow2Mod5(k) == <<1, 2, 4, 3>>[(k % 4) + 1]

Pow2Mod10(k) == <<6, 2, 4, 8>>[(k % 4) + 1]

\* The exact value [N, E] rounded to the nearest double, ties to the even
\* mantissa.  In binade e the doubles are M = 5 * 2^(e+3) units of u apart;
\* N/100 is (N/5) * 2^53 units, whose remainder modulo M (and modulo 2M, for
\* the parity of the mantissa) follows from 2^(50-e) modulo 5 (and 10).
RoundDouble(N, E) ==
    IF N = 0 /\ E = 0 THEN [N |-> 0, E |-> 0]
    ELSE LET e  == Binade(N, E)
             M  == 5 * Pow2(e + 3)
             r  == (Pow2(e + 3) * (((N \div 5) * Pow2Mod5(50 - e)) % 5) + E) % M
             r2 == (Pow2(e + 3) * (((N \div 5) * Pow2Mod10(50 - e)) % 10) + E) % (2 * M)
         IN  IF 2 * r < M THEN [N |-> N, E |-> E - r]
             ELSE IF 2 * r > M THEN [N |-> N, E |-> E - r + M]
             ELSE IF r2 = r THEN [N |-> N, E |-> E - r]
             ELSE [N |-> N, E |-> E - r + M]

\* score * weight: an int (exactly a double) times a double
FloatMul(score, w) == RoundDouble(score * w.N, score * w.E)

\* a + b of two doubles
FloatAdd(a, b) == RoundDouble(a.N + b.N, a.E + b.E)

\* round(x) of a double: the nearest integer, a tie to the even one
PyRound(x) ==
    LET q == x.N \div 100
        f == x.N % 100
    IN  IF f < 50 THEN q
        ELSE IF f > 50 THEN q + 1
        ELSE IF x.E < 0 THEN q
        ELSE IF x.E > 0 THEN q + 1
        ELSE IF q % 2 = 0 THEN q ELSE q + 1

_computeOverallScore(correctnessScore, complexityScore, styleScore, securityScore) ==
    LET weighted ==
            FloatAdd(FloatAdd(FloatAdd(FloatMul(correctnessScore, SCORE_WEIGHTS.correctness),
                                       FloatMul(complexityScore, SCORE_WEIGHTS.complexity)),
                              FloatMul(styleScore, SCORE_WEIGHTS.style)),
                     FloatMul(securityScore, SCORE_WEIGHTS.security))
    IN  PyRound(weighted)

GRADE_THRESHOLDS ==
    << [threshold |-> 90, grade |-> "A", label |-> "Excellent - production-ready quality."],
       [threshold |-> 80, grade |-> "B", label |-> "Good - minor improvements suggested."],
       [threshold |-> 70, grade |-> "C", label |-> "Acceptable - several areas need attention."],
       [threshold |-> 60, grade |-> "D", label |-> "Below average - significant issues present."],
       [threshold |-> 0,  grade |-> "F", label |-> "Failing - fundamental problems detected."] >>

\* _assignGrade with > in place of >= at line 69.
_assignGradeStrict(overallScore) ==
    LET hits == {i \in 1..Len(GRADE_THRESHOLDS) : overallScore > GRADE_THRESHOLDS[i].threshold}
    IN  IF hits = {} THEN [grade |-> "F", label |-> "Failing"]
        ELSE LET first == CHOOSE i \in hits : \A j \in hits : i <= j
             IN  [grade |-> GRADE_THRESHOLDS[first].grade,
                  label |-> GRADE_THRESHOLDS[first].label]

\* The first threshold, in list order, that the score reaches; line 71 when
\* it reaches none.
_assignGrade(overallScore) ==
    LET hits == {i \in 1..Len(GRADE_THRESHOLDS) : overallScore >= GRADE_THRESHOLDS[i].threshold}
    IN  IF hits = {} THEN [grade |-> "F", label |-> "Failing"]
        ELSE LET first == CHOOSE i \in hits : \A j \in hits : i <= j
             IN  [grade |-> GRADE_THRESHOLDS[first].grade,
                  label |-> GRADE_THRESHOLDS[first].label]

\* ------------------------------------------------------------------------
\* Submissions
\* ------------------------------------------------------------------------

\* The largest number of nodes in an enumerated function body.
MaxNodes == 3

\* The deepest chain of nested loops in a generated function.
MaxDepth == 5

\* The most operands of a boolean chain in a generated function.
MaxOperands == 13

\* The count that stands for "many violations of one check".
ManyViolations == 15

\* The most matches of one secret pattern in a generated source.
MaxMatches == 4

\* What the evaluators see of the submitted source:
\*   parses    ast.parse(submittedCode) succeeds
\*   compiles  the runner script built around the code compiles (the two
\*             differ: a source ending in a backslash does not parse alone
\*             but is completed by the blank line the script appends, and a
\*             top-level "return" parses but does not compile)
\*   tree      the syntax tree in pre-order, each node with its depth below
\*             the Module node (empty when the source does not parse)
\*   secrets   the matches of SECRET_PATTERNS in the text, in pattern order
\*   queries   the number of matches of SQL_INJECTION_PATTERN in the text
\*   found     how many violations each of _checkNaming,
\*             _checkMagicNumbers, _checkLineLengths, _checkMutableDefaults
\*             and _checkUnusedImports finds
Node(kind, level) == [kind |-> kind, level |-> level]

\* doc: the first statement of the body is a string constant.
FunctionDef(name, doc, level) ==
    [kind |-> "FunctionDef", level |-> level, name |-> name, doc |-> doc]

BoolOp(values, level) == [kind |-> "BoolOp", level |-> level, values |-> values]

Comprehension(ifs, level) == [kind |-> "comprehension", level |-> level, ifs |-> ifs]

ExceptHandler(typed, justPass, level) ==
    [kind |-> "ExceptHandler", level |-> level, typed |-> typed, justPass |-> justPass]

\* A call of a plain name (module "") or of module.func; shell is the
\* truth of a constant shell= keyword.
Call(module, func, shell, level) ==
    [kind |-> "Call", level |-> level, module |-> module, func |-> func, shell |-> shell]

\* An assert whose test, unparsed and lower-cased, holds one of the
\* SECURITY_KEYWORDS or not.
Assert_(keyword, level) == [kind |-> "Assert", level |-> level, keyword |-> keyword]

\* A sequence of nodes is a pre-order listing of a tree when the first node
\* is a child of the module and each node is at most one level deeper than
\* the node before it.
IsTree(t) ==
    /\ t # <<>> => t[1].level = 1
    /\ \A i \in 1..Len(t) : t[i].level >= 1
    /\ \A i \in 1..(Len(t) - 1) : t[i + 1].level <= t[i].level + 1

\* The descendants of node i.
Subtree(t, i) ==
    { j \in (i + 1)..Len(t) : \A k \in (i + 1)..j : t[k].level > t[i].level }

\* The proper ancestors of node j.
Ancestors(t, j) ==
    { a \in 1..(j - 1) : /\ t[a].level < t[j].level
                         /\ \A k \in (a + 1)..j : t[k].level > t[a].level }

RECURSIVE SeqOfSet(_)
\* The indices of a set in increasing order.
SeqOfSet(S) ==
    IF S = {} THEN <<>>
    ELSE LET m == CHOOSE x \in S : \A y \in S : x <= y
         IN  <<m>> \o SeqOfSet(S \ {m})

RECURSIVE Flatten(_)
Flatten(ss) == IF ss = <<>> THEN <<>> ELSE Head(ss) \o Flatten(Tail(ss))

\* ast.walk: breadth first, so by level and, within a level, in source
\* order; the nodes of the given kinds only.
Walk(t, among, kinds) ==
    LET levels == { t[i].level : i \in among }
        top    == IF levels = {} THEN 0 ELSE CHOOSE l \in levels : \A m \in levels : m <= l
    IN  Flatten([l \in 1..top |->
                   SeqOfSet({ i \in among : t[i].level = l /\ t[i].kind \in kinds })])

AllNodes(t) == 1..Len(t)

RECURSIVE SumSeq(_)
SumSeq(q) == IF q = <<>> THEN 0 ELSE Head(q) + SumSeq(Tail(q))

Max(a, b) == IF a >= b THEN a ELSE b

\* ------------------------------------------------------------------------
\* complexityEvaluator
\* ------------------------------------------------------------------------

\* What visiting one node adds to _CyclomaticVisitor.count: the visitor
\* has visit_If, visit_For, visit_While, visit_ExceptHandler, visit_BoolOp
\* and visit_comprehension and no other visit_ method (DECISION_NODE_TYPES
\* is not used), so With and Assert nodes add nothing.
Decisions(node) ==
    CASE node.kind \in {"If", "For", "While", "ExceptHandler"} -> 1
      [] node.kind = "BoolOp" -> node.values - 1
      [] node.kind = "comprehension" -> node.ifs
      [] OTHER -> 0

\* The count after _CyclomaticVisitor().visit(funcNode): every visit_
\* method calls generic_visit, so all descendants are reached.
_CyclomaticVisitor(t, f) ==
    1 + SumSeq([k \in 1..Len(SeqOfSet(Subtree(t, f))) |->
                  Decisions(t[SeqOfSet(Subtree(t, f))[k]])])

NESTING_NODES == {"For", "While", "If"}

\* maxDepth after _NestingDepthVisitor().visit(funcNode): the largest
\* number of nesting nodes on a path below the function.
_NestingDepthVisitor(t, f) ==
    LET depth(j) == Cardinality({ a \in (Ancestors(t, j) \cup {j}) :
                                    a > f /\ t[a].kind \in NESTING_NODES })
        depths   == { depth(j) : j \in Subtree(t, f) }
    IN  IF depths = {} THEN 0 ELSE CHOOSE d \in depths : \A e \in depths : e <= d

_detectRecursion(t, f) ==
    \E j \in Subtree(t, f) :
        t[j].kind = "Call" /\ t[j].module = "" /\ t[j].func = t[f].name

HINTS == {"sorted", "sort", "set", "dict", "reversed"}

RECURSIVE Dedup(_, _)
\* The first occurrences of a sequence, in order.
Dedup(q, seen) ==
    IF q = <<>> THEN <<>>
    ELSE IF Head(q) \in seen THEN Dedup(Tail(q), seen)
         ELSE <<Head(q)>> \o Dedup(Tail(q), seen \cup {Head(q)})

_detectBuiltinHints(t) ==
    LET calls == Walk(t, AllNodes(t), {"Call"})
        hits  == [k \in 1..Len(calls) |-> t[calls[k]].func]
    IN  Dedup(SelectSeq(hits, LAMBDA h : h \in HINTS), {})

\* FunctionScore with the deductions of the docstring of _scoreFromMetrics
\* (lines 156-159) in place of those of lines 172-180.
FunctionScoreAsDocumented(m) ==
    LET over5  == IF m.cyclomaticScore > 5
                  THEN Min(30, (m.cyclomaticScore - 5) * 5) ELSE 0
        over10 == IF m.cyclomaticScore > 10
                  THEN Min(20, (m.cyclomaticScore - 10) * 5) ELSE 0
        nested == IF m.maxNestDepth > 2
                  THEN Min(30, (m.maxNestDepth - 2) * 10) ELSE 0
    IN  Max(0, 100 - over5 - over10 - nested)

\* Lines 169-182: the score of one function.
FunctionScore(m) ==
    LET afterCyclomatic ==
            IF m.cyclomaticScore > 10
            THEN 100 - Min(30, (m.cyclomaticScore - 10) * 5)
                     - Min(20, (m.cyclomaticScore - 5) * 3)
            ELSE IF m.cyclomaticScore > 5
                 THEN 100 - Min(20, (m.cyclomaticScore - 5) * 4)
                 ELSE 100
        afterNesting ==
            IF m.maxNestDepth > 2
            THEN afterCyclomatic - Min(30, (m.maxNestDepth - 2) * 10)
            ELSE afterCyclomatic
    IN  Max(0, afterNesting)

\* _scoreFromMetrics without the neutral score of lines 164-165: nothing
\* is deducted when there is no function.
_scoreFromMetricsNoNeutral(metrics) ==
    IF metrics = <<>> THEN 100
    ELSE SumSeq([k \in 1..Len(metrics) |-> FunctionScore(metrics[k])]) \div Len(metrics)

\* int(sum / len): the quotient of two small integers is correctly rounded
\* and no non-integral quotient of them lies within rounding distance of an
\* integer, so truncation of the double is the integer quotient.
_scoreFromMetrics(metrics) ==
    IF metrics = <<>> THEN 50
    ELSE SumSeq([k \in 1..Len(metrics) |-> FunctionScore(metrics[k])]) \div Len(metrics)

\* Lines 224-245: one FunctionMetrics per function definition, in ast.walk
\* order.
FunctionMetrics(t) ==
    LET defs == Walk(t, AllNodes(t), {"FunctionDef"})
    IN  [k \in 1..Len(defs) |->
           [name            |-> t[defs[k]].name,
            cyclomaticScore |-> _CyclomaticVisitor(t, defs[k]),
            maxNestDepth    |-> _NestingDepthVisitor(t, defs[k]),
            isRecursive     |-> _detectRecursion(t, defs[k])]]

\* Lines 252-267: up to three warnings per function.
WarningsOf(m) ==
    (IF m.cyclomaticScore > 10
     THEN <<[about |-> "high cyclomatic complexity", name |-> m.name,
             value |-> m.cyclomaticScore]>> ELSE <<>>)
    \o (IF m.maxNestDepth > 3
        THEN <<[about |-> "deep nesting", name |-> m.name,
                value |-> m.maxNestDepth]>> ELSE <<>>)
    \o (IF m.isRecursive
        THEN <<[about |-> "recursive", name |-> m.name, value |-> 0]>> ELSE <<>>)

ParseError == [about |-> "syntax error", name |-> "", value |-> 0]

runComplexityEvaluation(submittedCode) ==
    IF ~submittedCode.parses
    THEN [score |-> 0, functions |-> <<>>, builtinHints |-> <<>>,
          summary |-> "Syntax error - could not parse", warnings |-> <<ParseError>>]
    ELSE LET functionMetrics == FunctionMetrics(submittedCode.tree)
             score == _scoreFromMetrics(functionMetrics)
         IN  [score        |-> score,
              functions    |-> functionMetrics,
              builtinHints |-> _detectBuiltinHints(submittedCode.tree),
              summary      |-> IF functionMetrics = <<>>
                               THEN "No top-level functions detected."
                               ELSE IF score >= 80
                                    THEN "No major complexity issues detected."
                                    ELSE "Complexity issues found - see warnings.",
              warnings     |-> Flatten([k \in 1..Len(functionMetrics) |->
                                          WarningsOf(functionMetrics[k])])]

\* ------------------------------------------------------------------------
\* styleEvaluator
\* ------------------------------------------------------------------------

VIOLATION_WEIGHTS ==
    [namingConvention |-> 3, magicNumber |-> 2, missingDocstring |-> 4,
     lineTooLong |-> 1, emptyExcept |-> 8, bareExcept |-> 6, mutableDefault |-> 7,
     unusedImport |-> 3, multipleReturnTypes |-> 2]

\* One violation message: the check that wrote it, and which of its
\* findings it is.
Violation(check, k) == [check |-> check, k |-> k]

\* The n messages of a check whose findings are only counted.
Counted(check, n) == [k \in 1..n |-> Violation(check, k)]

\* Lines 76-88 (function definitions only).
_checkDocstrings(t) ==
    LET defs == Walk(t, AllNodes(t), {"FunctionDef"})
        bare == SelectSeq(defs, LAMBDA i : ~t[i].doc)
    IN  [k \in 1..Len(bare) |-> Violation("missing a docstring", bare[k])]

\* Lines 120-143: one message per handler without a type, and one per
\* typed handler whose body is a single pass; both go to the same list.
\* _checkEmptyAndBareExcept with "if" in place of "elif" at line 138: an
\* untyped handler whose body is a single pass is flagged twice.
_checkEmptyAndBareExceptTwice(t) ==
    LET handlers == Walk(t, AllNodes(t), {"ExceptHandler"})
    IN  Flatten([k \in 1..Len(handlers) |->
                   (IF ~t[handlers[k]].typed
                    THEN <<Violation("Bare except", handlers[k])>> ELSE <<>>)
                   \o (IF t[handlers[k]].justPass
                       THEN <<Violation("except has an empty body", handlers[k])>>
                       ELSE <<>>)])

_checkEmptyAndBareExcept(t) ==
    LET handlers == Walk(t, AllNodes(t), {"ExceptHandler"})
        flagged  == SelectSeq(handlers, LAMBDA i : ~t[i].typed \/ t[i].justPass)
    IN  [k \in 1..Len(flagged) |->
           IF ~t[flagged[k]].typed
           THEN Violation("Bare except", flagged[k])
           ELSE Violation("except has an empty body", flagged[k])]

\* Lines 242-250: the dict of the seven checks.
ChecksOf(submittedCode) ==
    [namingConvention |-> Counted("naming", submittedCode.found.namingConvention),
     missingDocstring |-> _checkDocstrings(submittedCode.tree),
     magicNumber      |-> Counted("magic number", submittedCode.found.magicNumber),
     lineTooLong      |-> Counted("line too long", submittedCode.found.lineTooLong),
     emptyExcept      |-> _checkEmptyAndBareExcept(submittedCode.tree),
     mutableDefault   |-> Counted("mutable default", submittedCode.found.mutableDefault),
     unusedImport     |-> Counted("unused import", submittedCode.found.unusedImport)]

\* Line 253: {k: v for k, v in violations.items() if v}
RemoveEmpty(d) == [k \in {c \in DOMAIN d : d[c] # <<>>} |-> d[k]]

RECURSIVE DeductionOver(_, _)
\* The loop of lines 202-204 over the given keys.
DeductionOver(violationsByType, keys) ==
    IF keys = {} THEN 0
    ELSE LET violationType == CHOOSE k \in keys : TRUE
         IN  Len(violationsByType[violationType]) * Get(VIOLATION_WEIGHTS, violationType, 2)
             + DeductionOver(violationsByType, keys \ {violationType})

\* _computeScore of styleEvaluator.py, lines 195-205.
style_computeScore(violationsByType) ==
    Max(0, 100 - DeductionOver(violationsByType, DOMAIN violationsByType))

RECURSIVE CountOver(_, _)
\* Line 255: sum(len(v) for v in violations.values())
CountOver(violations, keys) ==
    IF keys = {} THEN 0
    ELSE LET k == CHOOSE x \in keys : TRUE
         IN  Len(violations[k]) + CountOver(violations, keys \ {k})

runStyleEvaluation(submittedCode) ==
    IF ~submittedCode.parses
    THEN [score |-> 0, violations |-> EmptyDict, totalViolations |-> 0,
          summary |-> "Syntax error - style checks skipped"]
    ELSE LET violations == RemoveEmpty(ChecksOf(submittedCode))
             totalViolations == CountOver(violations, DOMAIN violations)
         IN  [score |-> style_computeScore(violations),
              violations |-> violations,
              totalViolations |-> totalViolations,
              summary |-> IF totalViolations > 0 THEN "Found style violation(s)"
                          ELSE "No style violations detected. Clean code!"]

\* ------------------------------------------------------------------------
\* securityEvaluator
\* ------------------------------------------------------------------------

SEVERITY_DEDUCTIONS == [critical |-> 30, high |-> 15, medium |-> 8, low |-> 3]

SecurityFinding(severity, category, description) ==
    [severity |-> severity, category |-> category, description |-> description]

DANGEROUS == [eval |-> "critical", exec |-> "critical", __import__ |-> "high"]

DANGEROUS_ATTRS ==
    [os         |-> [system |-> "high", popen |-> "high"],
     subprocess |-> [call |-> "medium", Popen |-> "medium"],
     pickle     |-> [loads |-> "high", load |-> "high"],
     marshal    |-> [loads |-> "high"],
     yaml       |-> [load |-> "medium"]]

\* Lines 90-113: the findings of one Call node.
DangerousCall(node) ==
    IF node.module = ""
    THEN IF node.func \in DOMAIN DANGEROUS
         THEN <<SecurityFinding(DANGEROUS[node.func], "DangerousBuiltin", node.func)>>
         ELSE <<>>
    ELSE IF node.module \in DOMAIN DANGEROUS_ATTRS
            /\ node.func \in DOMAIN DANGEROUS_ATTRS[node.module]
         THEN <<SecurityFinding(DANGEROUS_ATTRS[node.module][node.func], "DangerousAPI",
                                node.func)>>
              \o (IF node.module = "subprocess" /\ node.shell
                  THEN <<SecurityFinding("high", "ShellInjection", "shell=True")>>
                  ELSE <<>>)
         ELSE <<>>

_checkDangerousCalls(t) ==
    LET calls == Walk(t, AllNodes(t), {"Call"})
    IN  Flatten([k \in 1..Len(calls) |-> DangerousCall(t[calls[k]])])

_checkAssertForSecurity(t) ==
    LET asserts == Walk(t, AllNodes(t), {"Assert"})
        hits    == SelectSeq(asserts, LAMBDA i : t[i].keyword)
    IN  [k \in 1..Len(hits) |->
           SecurityFinding("high", "AssertForSecurity", "assert used for security check")]

\* The labels of SECRET_PATTERNS, in list order.
SECRET_PATTERNS ==
    <<"Hardcoded password", "Hardcoded API key", "Hardcoded token", "Hardcoded AWS secret">>

\* Lines 148-159: per pattern, one critical finding per match.
_checkHardcodedSecrets(secrets) ==
    Flatten([p \in 1..Len(SECRET_PATTERNS) |->
               [k \in 1..secrets[p] |->
                  SecurityFinding("critical", "HardcodedSecret", SECRET_PATTERNS[p])]])

\* Lines 162-172: one high finding per match.
_checkSqlInjection(queries) ==
    [k \in 1..queries |-> SecurityFinding("high", "SQLInjection", "Possible SQL injection")]

\* security_computeScore with the deduction of a high finding for every
\* finding.
security_computeScoreFlat(findings) ==
    Max(0, 100 - SEVERITY_DEDUCTIONS.high * Len(findings))

\* security_computeScore without max(0, ...).
security_computeScoreUnfloored(findings) ==
    100 - SumSeq([k \in 1..Len(findings) |-> SEVERITY_DEDUCTIONS[findings[k].severity]])

\* _computeScore of securityEvaluator.py, lines 179-181.
security_computeScore(findings) ==
    LET totalDeduction ==
            SumSeq([k \in 1..Len(findings) |-> SEVERITY_DEDUCTIONS[findings[k].severity]])
    IN  Max(0, 100 - totalDeduction)

\* Lines 202-245: when ast.parse raises, the function returns at line 212,
\* before any of the four checks.
runSecurityEvaluation(submittedCode) ==
    IF ~submittedCode.parses
    THEN [score |-> 100, findings |-> <<>>,
          summary |-> "Syntax error - security checks skipped"]
    ELSE LET allFindings == _checkDangerousCalls(submittedCode.tree)
                            \o _checkAssertForSecurity(submittedCode.tree)
                            \o _checkHardcodedSecrets(submittedCode.secrets)
                            \o _checkSqlInjection(submittedCode.queries)
         IN  [score |-> security_computeScore(allFindings),
              findings |-> allFindings,
              summary |-> IF allFindings = <<>> THEN "No security issues detected."
                          ELSE "Found security finding(s)"]

\* ------------------------------------------------------------------------
\* reportGenerator: recommendations and the report
\* ------------------------------------------------------------------------

Recommendation(source, item) == [source |-> source, item |-> item]

\* list[:n]
Take(q, n) == SubSeq(q, 1, Min(n, Len(q)))

highImpactCategories == <<"emptyExcept", "mutableDefault", "bareExcept", "missingDocstring">>

\* Lines 84-115: the entries in priority order, before line 117 cuts the
\* list.
CollectRecommendations(correctness, complexity, style, security) ==
    LET failedTests == SelectSeq(Get(correctness, "testResults", <<>>),
                                 LAMBDA t : t.status \in {"fail", "error", "timeout"})
        criticalFindings == SelectSeq(Get(security, "findings", <<>>),
                                      LAMBDA f : f.severity \in {"critical", "high"})
        shown == Take(criticalFindings, 3)
        warnings == Take(Get(complexity, "warnings", <<>>), 2)
        styleViolations == Get(style, "violations", EmptyDict)
    IN  (IF failedTests # <<>>
         THEN <<Recommendation("Fix failing test case(s)", [failCount |-> Len(failedTests)])>>
         ELSE <<>>)
        \o [k \in 1..Len(shown) |-> Recommendation("[Security]", shown[k])]
        \o [k \in 1..Len(warnings) |-> Recommendation("[Complexity]", warnings[k])]
        \o Flatten([k \in 1..Len(highImpactCategories) |->
                      IF highImpactCategories[k] \in DOMAIN styleViolations
                      THEN <<Recommendation("[Style]",
                                            styleViolations[highImpactCategories[k]][1])>>
                      ELSE <<>>])

\* _buildRecommendations with the truncation of line 117 left out.
_buildRecommendationsUncut(correctness, complexity, style, security) ==
    CollectRecommendations(correctness, complexity, style, security)

\* Lines 74-117.
_buildRecommendations(correctness, complexity, style, security) ==
    Take(CollectRecommendations(correctness, complexity, style, security), 8)

\* Lines 146-204, without the metadata of lines 158-162.
buildReport(correctness, complexity, style, security) ==
    LET overallScore == _computeOverallScore(Get(correctness, "score", 0),
                                             Get(complexity, "score", 0),
                                             Get(style, "score", 0),
                                             Get(security, "score", 0))
        graded == _assignGrade(overallScore)
    IN  [overallScore |-> overallScore,
         grade        |-> graded.grade,
         gradeLabel   |-> graded.label,
         dimensions   |->
             [correctness |-> [score       |-> Get(correctness, "score", 0),
                               passed      |-> Get(correctness, "passed", 0),
                               total       |-> Get(correctness, "total", 0),
                               testResults |-> Get(correctness, "testResults", <<>>)],
              complexity  |-> [score        |-> Get(complexity, "score", 0),
                               summary      |-> Get(complexity, "summary", ""),
                               functions    |-> Get(complexity, "functions", <<>>),
                               builtinHints |-> Get(complexity, "builtinHints", <<>>),
                               warnings     |-> Get(complexity, "warnings", <<>>)],
              style       |-> [score           |-> Get(style, "score", 0),
                               summary         |-> Get(style, "summary", ""),
                               totalViolations |-> Get(style, "totalViolations", 0),
                               violations      |-> Get(style, "violations", EmptyDict)],
              security    |-> [score    |-> Get(security, "score", 0),
                               summary  |-> Get(security, "summary", ""),
                               findings |-> Get(security, "findings", <<>>)]],
         recommendations |-> _buildRecommendations(correctness, complexity, style, security)]

\* ------------------------------------------------------------------------
\* State
\* ------------------------------------------------------------------------

VARIABLES
    problem,       \* the Problem handed to runCorrectnessEvaluation
    pc,            \* where evaluateCode and runCorrectnessEvaluation stand
    allTestCases,  \* visible then hidden cases, each with its "hidden" key
    idx,           \* the position in allTestCases of the loop's current case
    totalWeight,
    earnedWeight,
    testResults,
    outcome,       \* what _runInSandbox returned for the current case
    proc,          \* per case, its child process: none, running, exited, killed
    spawns,        \* per case, how many child processes were started for it
    elapsed,       \* seconds the running child has had
    captured,      \* stdout and stderr of the child that exited
    result,        \* the dict runCorrectnessEvaluation returned
    prevRun,       \* the passing cases and the score of the previous run
    dims,          \* the four dimension scores handed to buildReport
    report,        \* the report buildReport returned
    submittedCode, \* the submission evaluateCode was handed
    complexity,    \* what runComplexityEvaluation returned
    style,         \* what runStyleEvaluation returned
    security,      \* what runSecurityEvaluation returned
    peer           \* the locals of a second request that is not running now

runVars ==
    <<pc, allTestCases, idx, totalWeight, earnedWeight, testResults, outcome,
      proc, spawns, elapsed, captured, result>>

reportVars == <<dims, report>>

evalVars == <<submittedCode, complexity, style, security>>

vars == <<problem, runVars, prevRun, reportVars, evalVars, peer>>

NoResult == [returned |-> FALSE, score |-> 0, passed |-> 0, total |-> 0, testResults |-> <<>>]

NoRun == [valid |-> FALSE, passed |-> {}, score |-> 0]

NoReport == [built |-> FALSE, overallScore |-> 0, grade |-> "F"]

\* A local of evaluateCode that is not bound yet.
Unbound == EmptyDict

NoSecrets == [p \in 1..Len(SECRET_PATTERNS) |-> 0]

NothingFound ==
    [namingConvention |-> 0, magicNumber |-> 0, lineTooLong |-> 0, mutableDefault |-> 0,
     unusedImport |-> 0]

Code(parses, compiles, tree, secrets, queries, found) ==
    [parses |-> parses, compiles |-> compiles, tree |-> tree, secrets |-> secrets,
     queries |-> queries, found |-> found]

\* A submission that parses and compiles and in which the analysers find
\* nothing; what it does when run is left open.
PlainCode == Code(TRUE, TRUE, <<>>, NoSecrets, 0, NothingFound)

\* The locals of evaluateCode before line 153.
EvaluateEntry ==
    /\ complexity = Unbound
    /\ style = Unbound
    /\ security = Unbound

NoDims == [correctness |-> 0, complexity |-> 0, style |-> 0, security |-> 0]

\* The server has one request only.
NoPeer == [waiting |-> FALSE]

\* The state in which runCorrectnessEvaluation is entered.
RunEntry ==
    /\ pc = "start"
    /\ allTestCases = <<>>
    /\ idx = 0
    /\ totalWeight = 0
    /\ earnedWeight = 0
    /\ testResults = <<>>
    /\ outcome = NotADict
    /\ proc = <<>>
    /\ spawns = <<>>
    /\ elapsed = 0
    /\ captured = NoOutput
    /\ result = NoResult

Init ==
    /\ problem \in Problems
    /\ RunEntry
    /\ prevRun = NoRun
    /\ dims = NoDims
    /\ report = NoReport
    /\ submittedCode = PlainCode
    /\ EvaluateEntry
    /\ peer = NoPeer

\* ------------------------------------------------------------------------
\* runCorrectnessEvaluation
\* ------------------------------------------------------------------------

\* {**tc, "hidden": flag}: a copy of the case with its "hidden" key set.
WithHidden(tc, flag) == ("hidden" :> flag) @@ tc

\* AllCases with the two loops of lines 164-168 swapped.
AllCasesHiddenFirst(p) ==
    [i \in 1..Len(p.hiddenTestCases) |-> WithHidden(p.hiddenTestCases[i], TRUE)]
    \o [i \in 1..Len(p.testCases) |-> WithHidden(p.testCases[i], FALSE)]

\* Lines 162-168: the visible cases in order, then the hidden ones.
AllCases(p) ==
    [i \in 1..Len(p.testCases) |-> WithHidden(p.testCases[i], FALSE)]
    \o [i \in 1..Len(p.hiddenTestCases) |-> WithHidden(p.hiddenTestCases[i], TRUE)]

\* CollectTestCases with the accumulators of lines 170-172 kept at module
\* level and never emptied.
CollectTestCasesKeepingTotals ==
    /\ pc = "start"
    /\ LET all == AllCases(problem)
       IN  /\ allTestCases' = all
           /\ proc' = [i \in 1..Len(all) |-> "none"]
           /\ spawns' = [i \in 1..Len(all) |-> 0]
    /\ idx' = 1
    /\ pc' = "loop"
    /\ UNCHANGED <<problem, testResults, totalWeight, earnedWeight, outcome, elapsed,
                   captured, result, prevRun, reportVars, evalVars, peer>>

\* CollectTestCases with tc["hidden"] = ... in place of the copies of lines
\* 165 and 168: the cases of the problem get the key.
CollectTestCasesInPlace ==
    /\ pc = "start"
    /\ LET all == AllCases(problem)
       IN  /\ allTestCases' = all
           /\ proc' = [i \in 1..Len(all) |-> "none"]
           /\ spawns' = [i \in 1..Len(all) |-> 0]
           /\ problem' =
                [problem EXCEPT !.testCases = SubSeq(all, 1, Len(problem.testCases)),
                                !.hiddenTestCases =
                                    SubSeq(all, Len(problem.testCases) + 1, Len(all))]
    /\ testResults' = <<>>
    /\ totalWeight' = 0
    /\ earnedWeight' = 0
    /\ idx' = 1
    /\ pc' = "loop"
    /\ UNCHANGED <<outcome, elapsed, captured, result, prevRun, reportVars, evalVars, peer>>

\* Lines 161-172: allTestCases is built and the accumulators start empty.
CollectTestCases ==
    /\ pc = "start"
    /\ LET all == AllCases(problem)
       IN  /\ allTestCases' = all
           /\ proc' = [i \in 1..Len(all) |-> "none"]
           /\ spawns' = [i \in 1..Len(all) |-> 0]
    /\ testResults' = <<>>
    /\ totalWeight' = 0
    /\ earnedWeight' = 0
    /\ idx' = 1
    /\ pc' = "loop"
    /\ UNCHANGED <<problem, outcome, elapsed, captured, result, prevRun, reportVars,
                   evalVars, peer>>

\* Lines 174-183: the loop takes the next case, adds its weight to
\* totalWeight and builds the script.
BeginCase ==
    /\ pc = "loop"
    /\ idx <= Len(allTestCases)
    /\ totalWeight' = totalWeight + Get(allTestCases[idx], "weight", 1)
    /\ pc' = "spawn"
    /\ UNCHANGED <<problem, allTestCases, idx, earnedWeight, testResults, outcome,
                   proc, spawns, elapsed, captured, result, prevRun, reportVars, evalVars, peer>>

\* Lines 184 and 78-83: subprocess.run starts the child.
Spawn ==
    /\ pc = "spawn"
    /\ proc' = [proc EXCEPT ![idx] = "running"]
    /\ spawns' = [spawns EXCEPT ![idx] = @ + 1]
    /\ elapsed' = 0
    /\ pc' = "wait"
    /\ UNCHANGED <<problem, allTestCases, idx, totalWeight, earnedWeight, testResults,
                   outcome, captured, result, prevRun, reportVars, evalVars, peer>>

\* A second passes while subprocess.run waits for the child.
Tick ==
    /\ pc = "wait"
    /\ elapsed < SANDBOX_TIMEOUT_SECONDS
    /\ elapsed' = elapsed + 1
    /\ UNCHANGED <<problem, pc, allTestCases, idx, totalWeight, earnedWeight,
                   testResults, outcome, proc, spawns, captured, result, prevRun,
                   reportVars, evalVars, peer>>

\* What the child can have written when it exits: anything when the script
\* compiles; the compiler's traceback on stderr and nothing on stdout when
\* it does not.
ChildOutputs(code) ==
    IF code.compiles THEN ProcOutputs
    ELSE { [stdout |-> StdoutLine("empty", EmptyDict, 0), stderr |-> Str("Traceback", 40)] }

\* A submission whose children do the same thing whenever it is run:
\* behaves[i] says whether the child of case i runs past the deadline and,
\* when it does not, what it has written when it exits.
Scripted(code, behaves) == ("behaves" :> behaves) @@ code

Exits(out) == [hangs |-> FALSE, out |-> out]

Hangs == [hangs |-> TRUE, out |-> NoOutput]

\* What the child of case i can have written when it exits.
ChildOutputsAt(code, i) ==
    IF "behaves" \in DOMAIN code
    THEN IF code.behaves[i].hangs THEN {} ELSE {code.behaves[i].out}
    ELSE ChildOutputs(code)

\* The child of case i can still be running at the deadline.
MayHang(code, i) == "behaves" \in DOMAIN code => code.behaves[i].hangs

\* The child exits by itself before the deadline.
ChildExits ==
    /\ pc = "wait"
    /\ elapsed < SANDBOX_TIMEOUT_SECONDS
    /\ \E out \in ChildOutputsAt(submittedCode, idx) : captured' = out
    /\ proc' = [proc EXCEPT ![idx] = "exited"]
    /\ elapsed' = 0
    /\ pc' = "parse"
    /\ UNCHANGED <<problem, allTestCases, idx, totalWeight, earnedWeight, testResults,
                   outcome, spawns, result, prevRun, reportVars, evalVars, peer>>

\* The deadline passes with the child still running: subprocess.run's wait
\* raises TimeoutExpired inside run().
DeadlineExpires ==
    /\ pc = "wait"
    /\ elapsed = SANDBOX_TIMEOUT_SECONDS
    /\ MayHang(submittedCode, idx)
    /\ pc' = "reap"
    /\ UNCHANGED <<problem, allTestCases, idx, totalWeight, earnedWeight, testResults,
                   outcome, proc, spawns, elapsed, captured, result, prevRun, reportVars, evalVars, peer>>

\* ReapedState of a wait that gives up at the deadline without kill().
LeftRunning(state) == state

\* What subprocess.run(timeout=...) does to the child before it lets
\* TimeoutExpired out: kill() and wait().
ReapedState(state) == "killed"

\* run() kills and reaps the child, then the handler of line 93 returns the
\* timeout dict.
KillAndReap ==
    /\ pc = "reap"
    /\ proc' = [proc EXCEPT ![idx] = ReapedState(@)]
    /\ outcome' = TimeoutResult
    /\ pc' = "record"
    /\ UNCHANGED <<problem, allTestCases, idx, totalWeight, earnedWeight, testResults,
                   spawns, elapsed, captured, result, prevRun, reportVars, evalVars, peer>>

\* Lines 84-98: the child's output becomes the value _runInSandbox returns.
ParseOutput ==
    /\ pc = "parse"
    /\ outcome' = SandboxResult(captured)
    /\ captured' = NoOutput
    /\ pc' = "record"
    /\ UNCHANGED <<problem, allTestCases, idx, totalWeight, earnedWeight, testResults,
                   proc, spawns, elapsed, result, prevRun, reportVars, evalVars, peer>>

\* Where the loop goes after a case is recorded.
NextIndex(i) == i + 1

\* Lines 186-204: the outcome is turned into a TestOutcome and appended.
\* No handler surrounds these lines: a TypeError or KeyError raised here
\* leaves runCorrectnessEvaluation.
RecordOutcome ==
    /\ pc = "record"
    /\ IF RecordRaises(outcome)
       THEN /\ pc' = "raised"
            /\ UNCHANGED <<earnedWeight, testResults, idx, peer>>
       ELSE /\ earnedWeight' = EarnedAfter(earnedWeight, Get(allTestCases[idx], "weight", 1),
                                           CasePassed(allTestCases[idx], outcome))
            /\ testResults' = Append(testResults, TestOutcome(allTestCases[idx], outcome))
            /\ idx' = NextIndex(idx)
            /\ pc' = "loop"
    /\ outcome' = NotADict
    /\ elapsed' = 0
    /\ UNCHANGED <<problem, allTestCases, totalWeight, proc, spawns, captured, result,
                   prevRun, reportVars, evalVars, peer>>

\* Lines 206-214: the loop is over; the score and the result dict.
Finish ==
    /\ pc = "loop"
    /\ idx > Len(allTestCases)
    /\ result' = [returned    |-> TRUE,
                  score       |-> ScoreOf(earnedWeight, totalWeight),
                  passed      |-> PassCount(testResults),
                  total       |-> Len(allTestCases),
                  testResults |-> testResults]
    /\ pc' = "done"
    /\ UNCHANGED <<problem, allTestCases, idx, totalWeight, earnedWeight, testResults,
                   outcome, proc, spawns, elapsed, captured, prevRun, reportVars, evalVars, peer>>

Next ==
    \/ CollectTestCases
    \/ BeginCase
    \/ Spawn
    \/ Tick
    \/ ChildExits
    \/ DeadlineExpires
    \/ KillAndReap
    \/ ParseOutput
    \/ RecordOutcome
    \/ Finish

Spec == Init /\ [][Next]_vars

\* ------------------------------------------------------------------------
\* A second request for the same problem (app.py, evaluateCode)
\* ------------------------------------------------------------------------

\* The cases of a result list that passed.
PassedCases(results) == {i \in 1..Len(results) : results[i].status = "pass"}

\* The run returned; the server takes another submission for the same
\* problem and enters runCorrectnessEvaluation again.  prevRun remembers
\* which cases passed and the score of the run that returned.
Rerun ==
    /\ pc = "done"
    /\ ~prevRun.valid
    /\ prevRun' = [valid |-> TRUE, passed |-> PassedCases(result.testResults),
                   score |-> result.score]
    /\ pc' = "start"
    /\ allTestCases' = <<>>
    /\ idx' = 0
    /\ totalWeight' = 0
    /\ earnedWeight' = 0
    /\ testResults' = <<>>
    /\ proc' = <<>>
    /\ spawns' = <<>>
    /\ result' = NoResult
    /\ UNCHANGED <<problem, outcome, elapsed, captured, reportVars, evalVars, peer>>

NextRerun == Next \/ Rerun

SpecRerun == Init /\ [][NextRerun]_vars

\* ------------------------------------------------------------------------
\* buildReport
\* ------------------------------------------------------------------------

DimScores == (100 - ScoreWindow)..100

EmptyProblem == [testCases |-> <<>>, hiddenTestCases |-> <<>>]

InitReport ==
    /\ problem = EmptyProblem
    /\ RunEntry
    /\ prevRun = NoRun
    /\ dims \in [correctness : DimScores, complexity : DimScores,
                 style : DimScores, security : DimScores]
    /\ report = NoReport
    /\ submittedCode = PlainCode
    /\ EvaluateEntry
    /\ peer = NoPeer

\* Lines 146-153 and 165-166: the overall score and its grade.
BuildReport ==
    /\ ~report.built
    /\ report' = ("built" :> TRUE)
                  @@ buildReport([score |-> dims.correctness], [score |-> dims.complexity],
                                 [score |-> dims.style], [score |-> dims.security])
    /\ UNCHANGED <<problem, runVars, prevRun, dims, evalVars, peer>>

NextReport == BuildReport

SpecReport == InitReport /\ [][NextReport]_vars

EqualOrEdge(d) == d.complexity \in {d.correctness, 0, 100}

\* buildReport over the whole range of scores: three dimensions equal and
\* the fourth equal to them, 0 or 100.
InitGrade ==
    /\ problem = EmptyProblem
    /\ RunEntry
    /\ prevRun = NoRun
    /\ dims \in { [correctness |-> c, complexity |-> x, style |-> c, security |-> c] :
                    c \in 0..100, x \in 0..100 }
    /\ EqualOrEdge(dims)
    /\ report = NoReport
    /\ submittedCode = PlainCode
    /\ EvaluateEntry
    /\ peer = NoPeer

SpecGrade == InitGrade /\ [][NextReport]_vars

\* ------------------------------------------------------------------------
\* evaluateCode after runCorrectnessEvaluation (app.py, lines 153-165)
\* ------------------------------------------------------------------------

\* Line 153.
RunComplexity ==
    /\ pc = "done"
    /\ complexity' = runComplexityEvaluation(submittedCode)
    /\ pc' = "style"
    /\ UNCHANGED <<problem, allTestCases, idx, totalWeight, earnedWeight, testResults,
                   outcome, proc, spawns, elapsed, captured, result, prevRun, reportVars,
                   submittedCode, style, security, peer>>

\* Line 154.
RunStyle ==
    /\ pc = "style"
    /\ style' = runStyleEvaluation(submittedCode)
    /\ pc' = "security"
    /\ UNCHANGED <<problem, allTestCases, idx, totalWeight, earnedWeight, testResults,
                   outcome, proc, spawns, elapsed, captured, result, prevRun, reportVars,
                   submittedCode, complexity, security, peer>>

\* Line 155.
RunSecurity ==
    /\ pc = "security"
    /\ security' = runSecurityEvaluation(submittedCode)
    /\ pc' = "report"
    /\ UNCHANGED <<problem, allTestCases, idx, totalWeight, earnedWeight, testResults,
                   outcome, proc, spawns, elapsed, captured, result, prevRun, reportVars,
                   submittedCode, complexity, style, peer>>

\* Lines 158-167: the report is built from the four results and returned.
Respond ==
    /\ pc = "report"
    /\ dims' = [correctness |-> Get(result, "score", 0),
                complexity  |-> Get(complexity, "score", 0),
                style       |-> Get(style, "score", 0),
                security    |-> Get(security, "score", 0)]
    /\ report' = ("built" :> TRUE) @@ buildReport(result, complexity, style, security)
    /\ pc' = "responded"
    /\ UNCHANGED <<problem, allTestCases, idx, totalWeight, earnedWeight, testResults,
                   outcome, proc, spawns, elapsed, captured, result, prevRun, evalVars, peer>>

\* ------------------------------------------------------------------------
\* The analysers on generated submissions, for a problem without test cases
\* ------------------------------------------------------------------------

\* The node kinds of an enumerated body, each at a given level.
BodyNodes(level) ==
    { Node("If", level), Node("For", level), Node("While", level), Node("With", level),
      ExceptHandler(TRUE, FALSE, level), Assert_(FALSE, level), BoolOp(3, level),
      Comprehension(2, level) }

\* Every function "f" whose body is a tree of at most MaxNodes such nodes.
ShapeTrees ==
    UNION { { <<FunctionDef("f", TRUE, 1)>> \o body :
                body \in { b \in [1..n -> UNION { BodyNodes(l) : l \in 2..(n + 1) }] :
                             IsTree(<<FunctionDef("f", TRUE, 1)>> \o b) } }
            : n \in 0..MaxNodes }

\* depth nested for loops, the innermost holding a boolean chain of the
\* given number of operands (none when it is 1).
LoopChain(name, depth, operands) ==
    <<FunctionDef(name, TRUE, 1)>>
    \o [l \in 1..depth |-> Node("For", l + 1)]
    \o (IF operands > 1 THEN <<BoolOp(operands, depth + 2)>> ELSE <<>>)

\* One or two functions made of such chains.
MetricTrees ==
    { LoopChain("f", d, v) : d \in 0..MaxDepth, v \in 1..MaxOperands }
    \cup { LoopChain("f", d, v) \o LoopChain("g", e, w) :
             d \in 0..MaxDepth, v \in 1..MaxOperands,
             e \in 0..MaxDepth, w \in 1..MaxOperands }

\* Module-level try statements with the four kinds of handler, and a
\* function with or without a docstring.
HandlerTrees ==
    { <<>>,
      <<Node("Try", 1), ExceptHandler(FALSE, FALSE, 2)>>,
      <<Node("Try", 1), ExceptHandler(FALSE, TRUE, 2)>>,
      <<Node("Try", 1), ExceptHandler(TRUE, TRUE, 2)>>,
      <<Node("Try", 1), ExceptHandler(TRUE, FALSE, 2)>>,
      <<Node("Try", 1), ExceptHandler(FALSE, FALSE, 2), ExceptHandler(TRUE, TRUE, 2)>>,
      <<FunctionDef("f", FALSE, 1), Node("Try", 2), ExceptHandler(FALSE, TRUE, 3)>>,
      <<FunctionDef("f", TRUE, 1)>> }

ViolationCounts == {0, 1, ManyViolations}

StyleCodes ==
    { Code(TRUE, TRUE, t, NoSecrets, 0, found) :
        t \in HandlerTrees,
        found \in [namingConvention : ViolationCounts, magicNumber : ViolationCounts,
                   lineTooLong : ViolationCounts, mutableDefault : ViolationCounts,
                   unusedImport : ViolationCounts] }

\* Module-level expression statements that call something.
CallNodes ==
    { Call("", "eval", FALSE, 1), Call("", "print", FALSE, 1),
      Call("os", "system", FALSE, 1), Call("subprocess", "call", TRUE, 1),
      Call("subprocess", "call", FALSE, 1), Call("yaml", "load", FALSE, 1) }

CallTrees ==
    {<<>>} \cup { <<a>> : a \in CallNodes } \cup { <<a, b>> : a, b \in CallNodes }

SecurityCodes ==
    { Code(TRUE, TRUE, t \o a, [p \in 1..Len(SECRET_PATTERNS) |->
                                  IF p = 1 THEN m ELSE IF p = 3 THEN k ELSE 0],
           q, NothingFound) :
        t \in CallTrees, a \in {<<>>, <<Assert_(TRUE, 1)>>, <<Assert_(FALSE, 1)>>},
        m \in 0..MaxMatches, k \in 0..1, q \in 0..2 }

\* Sources that do not parse: only their text is there to be looked at.
UnparsedCodes ==
    { Code(FALSE, c, <<>>, [p \in 1..Len(SECRET_PATTERNS) |-> IF p = 1 THEN m ELSE 0], q,
           [NothingFound EXCEPT !.lineTooLong = n]) :
        c \in BOOLEAN, m \in 0..MaxMatches, q \in 0..2, n \in 0..1 }

AnalysedCodes ==
    { Code(TRUE, TRUE, t, NoSecrets, 0, NothingFound) : t \in ShapeTrees \cup MetricTrees }
    \cup StyleCodes \cup SecurityCodes \cup UnparsedCodes

InitAnalyse ==
    /\ problem = EmptyProblem
    /\ RunEntry
    /\ prevRun = NoRun
    /\ dims = NoDims
    /\ report = NoReport
    /\ submittedCode \in AnalysedCodes
    /\ EvaluateEntry
    /\ peer = NoPeer

NextAnalyse ==
    \/ CollectTestCases
    \/ Finish
    \/ RunComplexity
    \/ RunStyle
    \/ RunSecurity
    \/ Respond

SpecAnalyse == InitAnalyse /\ [][NextAnalyse]_vars

\* ------------------------------------------------------------------------
\* evaluateCode from the first test case to the report
\* ------------------------------------------------------------------------

UnitCase == [expected |-> PyList(<<IntAtom(1), IntAtom(2)>>), ordered |-> TRUE, weight |-> 1]

\* A problem with one visible case, and one with a hidden case as well.
PipelineProblems ==
    { [testCases |-> <<TestCase(UnitCase, VisibleLabels[1])>>, hiddenTestCases |-> <<>>],
      [testCases |-> <<TestCase(UnitCase, VisibleLabels[1])>>,
       hiddenTestCases |-> <<TestCase(UnitCase, HiddenLabels[1])>>] }

\* The functions of a generated source: none; f; f calling itself; f and g
\* calling themselves; the same with a chain of twelve operands in f.
FunctionTrees(doc) ==
    { <<>>,
      <<FunctionDef("f", doc, 1)>>,
      <<FunctionDef("f", doc, 1), Call("", "f", FALSE, 2)>>,
      <<FunctionDef("f", doc, 1), Call("", "f", FALSE, 2),
        FunctionDef("g", TRUE, 1), Call("", "g", FALSE, 2)>>,
      <<FunctionDef("f", doc, 1), BoolOp(12, 2), Call("", "f", FALSE, 2),
        FunctionDef("g", TRUE, 1), Call("", "g", FALSE, 2)>> }

\* Module-level calls: none; one of medium severity; a critical, a medium,
\* a high and another critical one.
DangerTrees ==
    { <<>>,
      <<Call("subprocess", "call", FALSE, 1)>>,
      <<Call("", "eval", FALSE, 1), Call("subprocess", "call", FALSE, 1),
        Call("os", "system", FALSE, 1), Call("", "exec", FALSE, 1)>> }

TryTrees ==
    { <<>>,
      <<Node("Try", 1), ExceptHandler(FALSE, FALSE, 2)>>,
      <<Node("Try", 1), ExceptHandler(TRUE, TRUE, 2)>> }

\* What the text and the argument lists hold: passwords, queries, mutable
\* defaults.
TextFeatures ==
    { [secrets |-> 0, queries |-> 0, mutableDefault |-> 0],
      [secrets |-> 1, queries |-> 0, mutableDefault |-> 0],
      [secrets |-> 1, queries |-> 1, mutableDefault |-> 0],
      [secrets |-> 1, queries |-> 1, mutableDefault |-> 1] }

FeatureCodes ==
    { Code(TRUE, TRUE, f \o c \o h,
           [p \in 1..Len(SECRET_PATTERNS) |-> IF p = 1 THEN x.secrets ELSE 0], x.queries,
           [NothingFound EXCEPT !.mutableDefault = x.mutableDefault]) :
        f \in FunctionTrees(FALSE) \cup {<<FunctionDef("f", TRUE, 1)>>}, c \in DangerTrees,
        h \in TryTrees, x \in TextFeatures }

\* A source with a top-level return: it parses, the script does not compile.
ReturnOutsideFunction == Code(TRUE, FALSE, <<Node("Return", 1)>>, NoSecrets, 0, NothingFound)

\* Sources that do not parse, with and without a password and a query in
\* their text; those ending in a backslash compile inside the script.
BrokenCodes ==
    { Code(FALSE, c, <<>>, [p \in 1..Len(SECRET_PATTERNS) |-> IF p = 1 THEN m ELSE 0], q,
           NothingFound) : c \in BOOLEAN, m \in 0..1, q \in 0..1 }

InitEvaluate ==
    /\ problem \in PipelineProblems
    /\ RunEntry
    /\ prevRun = NoRun
    /\ dims = NoDims
    /\ report = NoReport
    /\ submittedCode \in FeatureCodes \cup {ReturnOutsideFunction} \cup BrokenCodes
    /\ EvaluateEntry
    /\ peer = NoPeer

NextEvaluate ==
    \/ Next
    \/ RunComplexity
    \/ RunStyle
    \/ RunSecurity
    \/ Respond

SpecEvaluate == InitEvaluate /\ [][NextEvaluate]_vars

\* ------------------------------------------------------------------------
\* One test case whose expected value and returned value range over lists
\* of ints and strs, None and an int
\* ------------------------------------------------------------------------

\* The longest list among the expected and the returned values.
MaxLen == 2

MatchAtoms == {IntAtom(1), IntAtom(2), StrAtom(1), StrAtom(2)}

MatchValues ==
    {PyNone, PyInt(1)}
    \cup { PyList(s) : s \in UNION { [1..n -> MatchAtoms] : n \in 0..MaxLen } }

MatchProblems ==
    { [testCases |-> <<TestCase([expected |-> e, ordered |-> o, weight |-> 1],
                                VisibleLabels[1])>>,
       hiddenTestCases |-> <<>>] : e \in MatchValues, o \in BOOLEAN }

InitMatch ==
    /\ problem \in MatchProblems
    /\ RunEntry
    /\ prevRun = NoRun
    /\ dims = NoDims
    /\ report = NoReport
    /\ submittedCode = PlainCode
    /\ EvaluateEntry
    /\ peer = NoPeer

\* The call returns a value and the driver prints it (line 60 of the
\* script); the child exits before the deadline.
ChildReturns ==
    /\ pc = "wait"
    /\ elapsed < SANDBOX_TIMEOUT_SECONDS
    /\ \E r \in MatchValues :
          captured' = [stdout |-> StdoutLine("object", DriverOk(r), 30), stderr |-> Str("", 0)]
    /\ proc' = [proc EXCEPT ![idx] = "exited"]
    /\ elapsed' = 0
    /\ pc' = "parse"
    /\ UNCHANGED <<problem, allTestCases, idx, totalWeight, earnedWeight, testResults,
                   outcome, spawns, result, prevRun, reportVars, evalVars, peer>>

NextMatch == Next \/ ChildReturns

SpecMatch == InitMatch /\ [][NextMatch]_vars

\* ------------------------------------------------------------------------
\* The same request twice: evaluateCode is entered again with the problem
\* and the submission of the request it has answered
\* ------------------------------------------------------------------------

\* What the child of one case of a scripted submission does.
Behaviours ==
    { Exits([stdout |-> StdoutLine("object", DriverOk(r), 30), stderr |-> Str("", 0)]) :
        r \in ResultValues }
    \cup { Exits([stdout |-> StdoutLine("object", DriverError, 50), stderr |-> Str("", 0)]),
           Exits([stdout |-> StdoutLine("text", EmptyDict, 30), stderr |-> Str("", 0)]),
           Exits([stdout |-> StdoutLine("empty", EmptyDict, 0), stderr |-> Str("Traceback", 40)]),
           Hangs }

\* A recursive function without docstring that calls eval inside a bare
\* handler, with a password in the text.
FlawedCode ==
    Code(TRUE, TRUE,
         <<FunctionDef("f", FALSE, 1), Call("", "f", FALSE, 2), Node("Try", 2),
           ExceptHandler(FALSE, TRUE, 3), Call("", "eval", FALSE, 4)>>,
         [p \in 1..Len(SECRET_PATTERNS) |-> IF p = 1 THEN 1 ELSE 0], 0, NothingFound)

\* A source that ends in a backslash.
BackslashCode == Code(FALSE, TRUE, <<>>, NoSecrets, 0, NothingFound)

ScriptedCodes ==
    { Scripted(c, b) : c \in {PlainCode, FlawedCode, BackslashCode},
                       b \in [1..MaxCases -> Behaviours] }

InitReplay ==
    /\ problem \in PipelineProblems
    /\ RunEntry
    /\ prevRun = NoRun
    /\ dims = NoDims
    /\ report = NoReport
    /\ submittedCode \in ScriptedCodes
    /\ EvaluateEntry
    /\ peer = NoPeer

\* The response went out; the same request comes in again.  prevRun keeps
\* what the first request produced.  The new call's locals are not bound
\* until the code binds them: they are left as they are here.
Replay ==
    /\ pc = "responded"
    /\ ~prevRun.valid
    /\ prevRun' = [valid |-> TRUE, passed |-> PassedCases(result.testResults),
                   score |-> result.score, result |-> result, complexity |-> complexity,
                   style |-> style, security |-> security, report |-> report]
    /\ pc' = "start"
    /\ result' = NoResult
    /\ complexity' = Unbound
    /\ style' = Unbound
    /\ security' = Unbound
    /\ dims' = NoDims
    /\ report' = NoReport
    /\ UNCHANGED <<problem, submittedCode, allTestCases, idx, totalWeight, earnedWeight,
                   testResults, outcome, proc, spawns, elapsed, captured, peer>>

NextReplay == NextEvaluate \/ Replay

SpecReplay == InitReplay /\ [][NextReplay]_vars

\* ------------------------------------------------------------------------
\* Two requests at once: the server runs evaluateCode in two threads for two
\* submissions of the same problem
\* ------------------------------------------------------------------------

\* The locals of the call of evaluateCode that is running, those of the
\* calls it makes, and the children it has started.
Locals ==
    [pc |-> pc, allTestCases |-> allTestCases, idx |-> idx, totalWeight |-> totalWeight,
     earnedWeight |-> earnedWeight, testResults |-> testResults, outcome |-> outcome,
     proc |-> proc, spawns |-> spawns, elapsed |-> elapsed, captured |-> captured,
     result |-> result, dims |-> dims, report |-> report, submittedCode |-> submittedCode,
     complexity |-> complexity, style |-> style, security |-> security]

\* The locals of a request that has entered evaluateCode with the given
\* submission.
EntryLocals(code) ==
    [pc |-> "start", allTestCases |-> <<>>, idx |-> 0, totalWeight |-> 0,
     earnedWeight |-> 0, testResults |-> <<>>, outcome |-> NotADict, proc |-> <<>>,
     spawns |-> <<>>, elapsed |-> 0, captured |-> NoOutput, result |-> NoResult,
     dims |-> NoDims, report |-> NoReport, submittedCode |-> code, complexity |-> Unbound,
     style |-> Unbound, security |-> Unbound]

\* The children of the first submission pass, fail or hang.
FirstCodes ==
    { Scripted(PlainCode, b) :
        b \in [1..MaxCases ->
                 { Exits([stdout |-> StdoutLine("object", DriverOk(r), 30),
                          stderr |-> Str("", 0)]) : r \in ResultValues } \cup {Hangs}] }

\* The children of the second submission raise or print something else.
SecondCodes ==
    { Scripted(FlawedCode, [i \in 1..MaxCases |-> b]) :
        b \in { Exits([stdout |-> StdoutLine("object", DriverError, 50), stderr |-> Str("", 0)]),
                Exits([stdout |-> StdoutLine("text", EmptyDict, 30), stderr |-> Str("", 0)]) } }

InitConcurrent ==
    /\ problem \in PipelineProblems
    /\ RunEntry
    /\ prevRun = NoRun
    /\ dims = NoDims
    /\ report = NoReport
    /\ submittedCode \in FirstCodes
    /\ EvaluateEntry
    /\ peer \in { [waiting |-> TRUE, locals |-> EntryLocals(c)] : c \in SecondCodes }

\* The running thread is suspended at any point between two steps and the
\* other one goes on where it was.  The problem and the module-level tables
\* are all that the two threads both see.
Switch ==
    /\ peer.waiting
    /\ peer' = [waiting |-> TRUE, locals |-> Locals]
    /\ pc' = peer.locals.pc
    /\ allTestCases' = peer.locals.allTestCases
    /\ idx' = peer.locals.idx
    /\ totalWeight' = peer.locals.totalWeight
    /\ earnedWeight' = peer.locals.earnedWeight
    /\ testResults' = peer.locals.testResults
    /\ outcome' = peer.locals.outcome
    /\ proc' = peer.locals.proc
    /\ spawns' = peer.locals.spawns
    /\ elapsed' = peer.locals.elapsed
    /\ captured' = peer.locals.captured
    /\ result' = peer.locals.result
    /\ dims' = peer.locals.dims
    /\ report' = peer.locals.report
    /\ submittedCode' = peer.locals.submittedCode
    /\ complexity' = peer.locals.complexity
    /\ style' = peer.locals.style
    /\ security' = peer.locals.security
    /\ UNCHANGED <<problem, prevRun>>

NextConcurrent == NextEvaluate \/ Switch

SpecConcurrent == InitConcurrent /\ [][NextConcurrent]_vars

\* ------------------------------------------------------------------------
\* Children that write a lot
\* ------------------------------------------------------------------------

\* How many characters past MAX_OUTPUT_CHARS a long output has.
Excess == 100

OutputLengths == {40, MAX_OUTPUT_CHARS + Excess}

\* The driver's record of an exception whose message has n characters.
DriverErrorOf(n) == [status |-> "error", error |-> Str("exception message", n)]

\* The child writes n characters: to stderr only, as a stdout line that is
\* no JSON, or as the message of an exception the driver reports; or it
\* returns the expected list.
WritingBehaviours ==
    UNION { { Exits([stdout |-> StdoutLine("empty", EmptyDict, 0),
                     stderr |-> Str("Traceback", n)]),
              Exits([stdout |-> StdoutLine("text", EmptyDict, n), stderr |-> Str("", 0)]),
              Exits([stdout |-> StdoutLine("object", DriverErrorOf(n), n + 30),
                     stderr |-> Str("", 0)]) } : n \in OutputLengths }
    \cup { Exits([stdout |-> StdoutLine("object", DriverOk(UnitCase.expected), 30),
                  stderr |-> Str("", 0)]) }

InitWriting ==
    /\ problem \in PipelineProblems
    /\ RunEntry
    /\ prevRun = NoRun
    /\ dims = NoDims
    /\ report = NoReport
    /\ submittedCode \in { Scripted(PlainCode, b) : b \in [1..MaxCases -> WritingBehaviours] }
    /\ EvaluateEntry
    /\ peer = NoPeer

NextWriting ==
    \/ CollectTestCases
    \/ BeginCase
    \/ Spawn
    \/ Tick
    \/ ChildExits
    \/ ParseOutput
    \/ RecordOutcome
    \/ Finish

SpecWriting == InitWriting /\ [][NextWriting]_vars

\* ------------------------------------------------------------------------
\* Properties of runCorrectnessEvaluation
\* ------------------------------------------------------------------------

RECURSIVE WeightSum(_, _)
\* The sum of the weights of the outcomes whose status is in statuses.
WeightSum(results, statuses) ==
    IF results = <<>> THEN 0
    ELSE (IF Head(results).status \in statuses THEN Head(results).weight ELSE 0)
         + WeightSum(Tail(results), statuses)

\* The sum of the weights of all outcomes.
RECURSIVE WeightTotal(_)
WeightTotal(results) ==
    IF results = <<>> THEN 0 ELSE Head(results).weight + WeightTotal(Tail(results))

\* The case of the problem that position i of allTestCases comes from.
ProblemCase(i) ==
    IF i <= Len(problem.testCases) THEN problem.testCases[i]
    ELSE problem.hiddenTestCases[i - Len(problem.testCases)]

CaseCount == Len(problem.testCases) + Len(problem.hiddenTestCases)

\* C1: whatever the child processes do, no exception leaves
\* runCorrectnessEvaluation, and when it has returned its result holds an
\* outcome for every case of the problem.
C1_NeverAborts ==
    /\ pc # "raised"
    /\ result.returned => Len(result.testResults) = CaseCount

\* C2: the returned score is 100 * earnedWeight / totalWeight rounded to the
\* nearest integer (either neighbour at an exact half), and 0 when
\* totalWeight is 0.
C2_ScoreIsNearestInteger ==
    result.returned =>
        LET earned == WeightSum(result.testResults, {"pass"})
            total  == WeightTotal(result.testResults)
        IN  IF total > 0
            THEN 2 * Abs(100 * earned - result.score * total) <= total
            ELSE result.score = 0

\* C3: a returned score of 100 means that every outcome has status pass.
C3_FullScoreAllPass ==
    (result.returned /\ result.score = 100) =>
        \A i \in 1..Len(result.testResults) : result.testResults[i].status = "pass"

\* C3 witness: a run of two cases returned with score 100.
C3_Witness ==
    /\ result.returned
    /\ result.score = 100
    /\ Len(result.testResults) >= 2

\* C4 as stated: a returned score of 0 means that the weights of the passing
\* outcomes sum to 0.
C4_ZeroScoreNothingEarned ==
    (result.returned /\ result.score = 0) =>
        WeightSum(result.testResults, {"pass"}) = 0

\* C4 amended: a returned score of 0 means that earnedWeight is less than
\* one hundredth of totalWeight.
C4_ZeroScoreUnderOnePercent ==
    (result.returned /\ result.score = 0) =>
        \/ earnedWeight = 0
        \/ 100 * earnedWeight < totalWeight

\* C4 witness: a run returned with score 0 although a case earned its
\* weight.
C4_Witness ==
    /\ result.returned
    /\ result.score = 0
    /\ earnedWeight > 0

\* C5: of two runs over the same problem, the one in which every passing
\* case of the other passes too has at least the other's score.
C5_ScoreMonotone ==
    (result.returned /\ prevRun.valid) =>
        /\ prevRun.passed \subseteq PassedCases(result.testResults)
              => prevRun.score <= result.score
        /\ PassedCases(result.testResults) \subseteq prevRun.passed
              => result.score <= prevRun.score

\* C5 witness: the second run passes a case more than the first and scores
\* more.
C5_Witness ==
    /\ result.returned
    /\ prevRun.valid
    /\ prevRun.passed \subseteq PassedCases(result.testResults)
    /\ prevRun.passed # PassedCases(result.testResults)
    /\ prevRun.passed # {}
    /\ prevRun.score < result.score

\* C6: the outcomes recorded so far are those of the first cases of the
\* problem, visible cases in problem order and then hidden cases in problem
\* order, each with its case's label, expected value and weight and with
\* hidden false for a visible and true for a hidden case; the returned
\* result holds one outcome per case and total counts them.
C6_OneOutcomePerCase ==
    /\ Len(testResults) <= CaseCount
    /\ \A i \in 1..Len(testResults) :
          /\ testResults[i].hidden = (i > Len(problem.testCases))
          /\ testResults[i].label = ProblemCase(i).label
          /\ testResults[i].expected = ProblemCase(i).expected
          /\ testResults[i].weight = ProblemCase(i).weight
    /\ result.returned =>
          /\ result.testResults = testResults
          /\ Len(result.testResults) = CaseCount
          /\ result.total = CaseCount

\* C6 witness: a run over a visible and a hidden case has returned.
C6_Witness ==
    /\ result.returned
    /\ Len(problem.testCases) >= 1
    /\ Len(problem.hiddenTestCases) >= 1
    /\ Len(result.testResults) = CaseCount

\* C7: every recorded status is pass, fail, error or timeout.
C7_StatusIsOneOfFour ==
    \A i \in 1..Len(testResults) :
        testResults[i].status \in {"pass", "fail", "error", "timeout"}

\* C8: a child that ran into the deadline has been killed before
\* _runInSandbox returns its outcome, and its case is recorded as timeout;
\* no outcome exists for a case whose child is still running.
C8_KilledBeforeRecorded ==
    /\ \A i \in 1..Len(testResults) :
          /\ proc[i] \in {"exited", "killed"}
          /\ proc[i] = "killed" => testResults[i].status = "timeout"
    /\ pc = "record" =>
          /\ proc[idx] \in {"exited", "killed"}
          /\ outcome = TimeoutResult => proc[idx] = "killed"
    /\ pc = "reap" => idx > Len(testResults)

\* C8 witness: a case whose child was killed at the deadline is recorded as
\* timeout.
C8_Witness ==
    \E i \in 1..Len(testResults) :
        proc[i] = "killed" /\ testResults[i].status = "timeout"

\* C9: no case ever gets a second child process, and when the run is over
\* every case has been executed in exactly one child process and recorded
\* exactly once.
C9_ExactlyOnce ==
    /\ \A i \in 1..Len(spawns) : spawns[i] <= 1
    /\ pc \in {"done", "raised"} =>
          /\ Len(testResults) = Len(allTestCases)
          /\ \A i \in 1..Len(allTestCases) : spawns[i] = 1

\* ------------------------------------------------------------------------
\* Properties of buildReport
\* ------------------------------------------------------------------------

\* The exact weighted sum of the four scores, in hundredths.
WeightedHundredths == 50 * dims.correctness + 20 * dims.complexity
                      + 15 * dims.style + 15 * dims.security

\* h hundredths rounded to the nearest integer, a half to the even one.
RoundHalfEven(h) ==
    IF h % 100 > 50 \/ (h % 100 = 50 /\ (h \div 100) % 2 = 1)
    THEN h \div 100 + 1 ELSE h \div 100

\* h hundredths rounded to the nearest integer, a half upwards.
RoundHalfUp(h) == (h + 50) \div 100

\* C10: the overall score is round(0.50 C + 0.20 X + 0.15 S + 0.15 K), with
\* round read either way at an exact half (to the even integer, as Python's
\* round does, or upwards).
C10_OverallIsRoundedSum ==
    report.built =>
        report.overallScore \in {RoundHalfEven(WeightedHundredths),
                                 RoundHalfUp(WeightedHundredths)}

\* C11: the grade of a report is A for an overall score of at least 90, B
\* from 80 to 89, C from 70 to 79, D from 60 to 69 and F below 60, and the
\* grade label is the fixed label of that grade.
C11_GradeByThreshold ==
    report.built =>
        LET s == report.overallScore
        IN  /\ s \in 0..100
            /\ report.grade = "A" <=> s >= 90
            /\ report.grade = "B" <=> (80 <= s /\ s <= 89)
            /\ report.grade = "C" <=> (70 <= s /\ s <= 79)
            /\ report.grade = "D" <=> (60 <= s /\ s <= 69)
            /\ report.grade = "F" <=> s < 60
            /\ report.gradeLabel =
                  CASE report.grade = "A" -> "Excellent - production-ready quality."
                    [] report.grade = "B" -> "Good - minor improvements suggested."
                    [] report.grade = "C" -> "Acceptable - several areas need attention."
                    [] report.grade = "D" -> "Below average - significant issues present."
                    [] OTHER -> "Failing - fundamental problems detected."

\* C11 witness: a report with overall score 90 and grade A.
C11_Witness ==
    /\ report.built
    /\ report.overallScore = 90
    /\ report.grade = "A"

\* The entries the four results of the current request call for, in
\* priority order and before truncation.
ExpectedRecommendations ==
    LET failing  == { i \in 1..Len(result.testResults) :
                        result.testResults[i].status \in {"fail", "error", "timeout"} }
        severe   == SelectSeq(security.findings,
                              LAMBDA f : f.severity = "critical" \/ f.severity = "high")
        present(category) == category \in DOMAIN style.violations
        first(category) ==
            IF present(category)
            THEN <<[source |-> "[Style]", item |-> Head(style.violations[category])]>>
            ELSE <<>>
    IN  (IF failing # {}
         THEN <<[source |-> "Fix failing test case(s)",
                 item |-> [failCount |-> Cardinality(failing)]]>>
         ELSE <<>>)
        \o [k \in 1..Min(3, Len(severe)) |-> [source |-> "[Security]", item |-> severe[k]]]
        \o [k \in 1..Min(2, Len(complexity.warnings)) |->
              [source |-> "[Complexity]", item |-> complexity.warnings[k]]]
        \o first("emptyExcept") \o first("mutableDefault") \o first("bareExcept")
        \o first("missingDocstring")

\* C12: the recommendations of a report are the first 8 of: the count of
\* failing, erroring and timed-out cases if there is one; the first three
\* critical or high findings; the first two complexity warnings; the first
\* violation of each present category among empty-except, mutable-default,
\* bare-except and missing-doc, in that order.
C12_RecommendationsByPriority ==
    report.built =>
        /\ Len(report.recommendations) <= 8
        /\ report.recommendations =
              SubSeq(ExpectedRecommendations, 1, Min(8, Len(ExpectedRecommendations)))

\* C12 witness: a report for which nine entries were called for and eight
\* are listed.
C12_Witness ==
    /\ report.built
    /\ Len(ExpectedRecommendations) = 9
    /\ Len(report.recommendations) = 8

\* ------------------------------------------------------------------------
\* Properties of the analysers
\* ------------------------------------------------------------------------

\* runSecurityEvaluation has returned.
SecurityReturned == pc \in {"report", "responded"}

\* C13: for a submission that does not parse, the security result still
\* holds one critical finding per credential match and one high finding per
\* query match of the text, its score is reduced by 30 and 15 for them, and
\* its summary notes the parse error.
C13_TextChecksOnParseFailure ==
    (SecurityReturned /\ ~submittedCode.parses) =>
        /\ Len(SelectSeq(security.findings,
                         LAMBDA f : f.severity = "critical" /\ f.category = "HardcodedSecret"))
              = SumSeq(submittedCode.secrets)
        /\ Len(SelectSeq(security.findings,
                         LAMBDA f : f.severity = "high" /\ f.category = "SQLInjection"))
              = submittedCode.queries
        /\ security.score =
              Max(0, 100 - 30 * SumSeq(submittedCode.secrets) - 15 * submittedCode.queries)
        /\ security.summary = "Syntax error - security checks skipped"

\* C14: for a submission that does not parse, no evaluator raises; no test
\* case is recorded as pass; the complexity result has score 0, no
\* functions and the error in its summary and warnings; the style result
\* has score 0, no violations and the error in its summary; and the report
\* built from them carries these results.
C14_ParseFailureDegrades ==
    ~submittedCode.parses =>
        /\ pc # "raised"
        /\ \A i \in 1..Len(testResults) : testResults[i].status # "pass"
        /\ pc \in {"style", "security", "report", "responded"} =>
              /\ complexity.score = 0
              /\ complexity.functions = <<>>
              /\ complexity.summary = "Syntax error - could not parse"
              /\ complexity.warnings = <<ParseError>>
        /\ pc \in {"security", "report", "responded"} =>
              /\ style.score = 0
              /\ style.violations = EmptyDict
              /\ style.summary = "Syntax error - style checks skipped"
        /\ pc = "responded" =>
              /\ report.built
              /\ report.dimensions.correctness.testResults = result.testResults
              /\ report.dimensions.complexity.score = 0
              /\ report.dimensions.style.score = 0
              /\ report.dimensions.security.score = security.score

\* C15: the four dimension scores and the overall score of a report are in
\* 0..100, and so is each score as soon as its evaluator has returned.
C15_ScoresInRange ==
    /\ result.returned => result.score \in 0..100
    /\ pc \in {"style", "security", "report", "responded"} => complexity.score \in 0..100
    /\ pc \in {"security", "report", "responded"} => style.score \in 0..100
    /\ pc \in {"report", "responded"} => security.score \in 0..100
    /\ report.built =>
          /\ report.dimensions.correctness.score \in 0..100
          /\ report.dimensions.complexity.score \in 0..100
          /\ report.dimensions.style.score \in 0..100
          /\ report.dimensions.security.score \in 0..100
          /\ report.overallScore \in 0..100

\* C15 witness: a report whose findings deduct more than 100 points, for a
\* submission that passes its tests.
C15_Witness ==
    /\ report.built
    /\ report.dimensions.correctness.score = 100
    /\ report.dimensions.security.score = 0
    /\ Len(report.dimensions.security.findings) >= 5

\* runComplexityEvaluation has returned.
ComplexityReturned == pc \in {"style", "security", "report", "responded"}

\* The deductions for cyclomatic count c and nesting depth d.
CyclomaticDeduction(c) ==
    IF c > 10 THEN Min(30, 5 * (c - 10)) + Min(20, 3 * (c - 5))
    ELSE IF c > 5 THEN Min(20, 4 * (c - 5))
    ELSE 0

NestingDeduction(d) == IF d > 2 THEN Min(30, 10 * (d - 2)) ELSE 0

C17_NoFunctionsScoreFifty ==
    (ComplexityReturned /\ complexity.functions = <<>>) => complexity.score = 50

\* C17 amended: a submission that parses and holds no function definition
\* gets complexity score 50 and an empty functions list; one that does not
\* parse gets score 0 and an empty functions list.
C17_NoFunctionsParsedScoreFifty ==
    ComplexityReturned =>
        /\ (submittedCode.parses
            /\ \A i \in 1..Len(submittedCode.tree) : submittedCode.tree[i].kind # "FunctionDef")
              => (complexity.score = 50 /\ complexity.functions = <<>>)
        /\ ~submittedCode.parses => (complexity.score = 0 /\ complexity.functions = <<>>)

\* C17 witness: a parsing submission with statements and no function has
\* been scored 50.
C17_Witness ==
    /\ ComplexityReturned
    /\ submittedCode.parses
    /\ submittedCode.tree # <<>>
    /\ complexity.functions = <<>>
    /\ complexity.score = 50

\* What one node adds to the cyclomatic count as C18 describes it.
DescribedDecisions(node) ==
    CASE node.kind \in {"If", "For", "While", "ExceptHandler", "With", "Assert"} -> 1
      [] node.kind = "BoolOp" -> node.values - 1
      [] node.kind = "comprehension" -> node.ifs
      [] OTHER -> 0

\* C18: the cyclomatic count of the one function of a submission is 1 plus
\* one for each if/elif, loop, exception handler, with block and assertion
\* below it, plus the number of filter clauses of each comprehension and
\* the number of operands less one of each boolean chain; it is at least 1.
C18_CyclomaticCount ==
    (/\ ComplexityReturned
     /\ submittedCode.parses
     /\ Len(complexity.functions) = 1
     /\ submittedCode.tree[1].kind = "FunctionDef") =>
        LET t     == submittedCode.tree
            below == SeqOfSet(Subtree(t, 1))
        IN  /\ complexity.functions[1].cyclomaticScore >= 1
            /\ complexity.functions[1].cyclomaticScore
                  = 1 + SumSeq([k \in 1..Len(below) |-> DescribedDecisions(t[below[k]])])

\* runStyleEvaluation has returned.
StyleReturned == pc \in {"security", "report", "responded"}

\* How many nodes of the submission satisfy a condition.
NodesWhere(Cond(_)) ==
    Cardinality({ i \in 1..Len(submittedCode.tree) : Cond(submittedCode.tree[i]) })

\* C19: the style score of a parsing submission is 100 less 3 per naming,
\* 2 per magic-number, 4 per missing-doc, 1 per long-line, 7 per
\* mutable-default and 3 per unused-import violation, 6 per handler without
\* a type and 8 per typed handler whose body is a single pass, floored at 0.
C19_StyleScore ==
    (StyleReturned /\ submittedCode.parses) =>
        LET found   == submittedCode.found
            undocumented == NodesWhere(LAMBDA n : n.kind = "FunctionDef" /\ ~n.doc)
            untyped == NodesWhere(LAMBDA n : n.kind = "ExceptHandler" /\ ~n.typed)
            noop    == NodesWhere(LAMBDA n : n.kind = "ExceptHandler" /\ n.typed /\ n.justPass)
        IN  style.score =
                Max(0, 100 - (3 * found.namingConvention + 2 * found.magicNumber
                              + 4 * undocumented + 1 * found.lineTooLong
                              + 8 * noop + 6 * untyped
                              + 7 * found.mutableDefault + 3 * found.unusedImport))

\* How many reported findings have the given severity.
FindingsOf(severity) ==
    Len(SelectSeq(security.findings, LAMBDA f : f.severity = severity))

\* C20: the security score is 100 less 30 per critical, 15 per high, 8 per
\* medium and 3 per low reported finding, floored at 0; with a critical
\* finding it is at most 70.
C20_SecurityScore ==
    SecurityReturned =>
        /\ security.score =
              Max(0, 100 - (30 * FindingsOf("critical") + 15 * FindingsOf("high")
                            + 8 * FindingsOf("medium") + 3 * FindingsOf("low")))
        /\ FindingsOf("critical") >= 1 => security.score <= 70

\* C20 witness: a parsing submission whose only finding is one call of
\* eval has been scored 70.
C20_Witness ==
    /\ SecurityReturned
    /\ submittedCode.parses
    /\ Len(security.findings) = 1
    /\ security.findings[1].severity = "critical"
    /\ security.findings[1].category = "DangerousBuiltin"
    /\ security.score = 70

\* ------------------------------------------------------------------------
\* Properties of _valuesMatch
\* ------------------------------------------------------------------------

\* How often the atom a occurs in the list s.
Occurrences(s, a) == Cardinality({i \in 1..Len(s) : s[i] = a})

\* The two lists hold the same elements, each as often in one as in the
\* other.
MultisetEqual(s, q) ==
    /\ Len(s) = Len(q)
    /\ \A i \in 1..Len(s) : Occurrences(s, s[i]) = Occurrences(q, s[i])

\* The outcomes of order-insensitive cases in which a list was expected and
\* a list was returned.
UnorderedListOutcomes ==
    { i \in 1..Len(testResults) :
        /\ ~Get(allTestCases[i], "ordered", TRUE)
        /\ testResults[i].status \in {"pass", "fail"}
        /\ testResults[i].expected.t = "list"
        /\ testResults[i].actual.t = "list" }

\* C21 (as stated): an order-insensitive case with a list on both sides
\* passes exactly when the two lists are equal as multisets of elements,
\* also when the elements cannot be ordered and their texts are compared.
C21_UnorderedIsMultisetEquality ==
    \A i \in UnorderedListOutcomes :
        testResults[i].status = "pass"
            <=> MultisetEqual(testResults[i].actual.v, testResults[i].expected.v)

\* C21 (amended): such a case passes exactly when the lists are equal as
\* multisets if sorted() accepts both of them, and exactly when the texts of
\* their elements are equal as multisets if sorted() rejects one of them.
C21_UnorderedIsMultisetOrTextEquality ==
    \A i \in UnorderedListOutcomes :
        LET a == testResults[i].actual.v
            e == testResults[i].expected.v
        IN  testResults[i].status = "pass"
                <=> IF Orderable(a) /\ Orderable(e) THEN MultisetEqual(a, e)
                    ELSE MultisetEqual(StrMap(a), StrMap(e))

\* A case passed through the comparison of texts with its list in another
\* order than the expected one.
C21_Witness ==
    \E i \in UnorderedListOutcomes :
        /\ ~Orderable(testResults[i].actual.v)
        /\ testResults[i].actual # testResults[i].expected
        /\ MultisetEqual(testResults[i].actual.v, testResults[i].expected.v)
        /\ testResults[i].status = "pass"

\* [j, i] for the list [i, j].
Swapped(pair) == PyList(<<pair.v[2], pair.v[1]>>)

\* The case at position i is order-sensitive, expects a list [i, j] of two
\* different elements, and the call returned [j, i].
ReturnedSwapped(i) ==
    /\ Get(allTestCases[i], "ordered", TRUE)
    /\ testResults[i].status \in {"pass", "fail"}
    /\ testResults[i].expected.t = "list"
    /\ Len(testResults[i].expected.v) = 2
    /\ testResults[i].expected.v[1] # testResults[i].expected.v[2]
    /\ testResults[i].actual = Swapped(testResults[i].expected)

\* C22: an order-sensitive case that expects [i, j] and gets [j, i] fails;
\* when this is so for every case of the problem, the returned score is 0.
C22_SwappedPairFails ==
    /\ \A i \in 1..Len(testResults) : ReturnedSwapped(i) => testResults[i].status = "fail"
    /\ (result.returned /\ \A i \in 1..Len(testResults) : ReturnedSwapped(i))
           => result.score = 0 /\ result.passed = 0

\* A run of two order-sensitive cases of different weight that both got the
\* swapped pair has returned.
C22_Witness ==
    /\ result.returned
    /\ Len(result.testResults) = 2
    /\ \A i \in 1..2 : ReturnedSwapped(i) /\ result.testResults[i].status = "fail"
    /\ result.testResults[1].weight # result.testResults[2].weight
    /\ result.score = 0

\* The outcomes of the cases that expect None and whose call returned a
\* value.
NullExpectedOutcomes ==
    { i \in 1..Len(testResults) :
        /\ testResults[i].expected.t = "none"
        /\ testResults[i].status \in {"pass", "fail"} }

\* The driver reported the value the call returned, and the case at hand
\* expects None.
ReturnedForNullExpected ==
    /\ pc = "record"
    /\ ~RecordRaises(outcome)
    /\ outcome.d.status = "ok"
    /\ Get(allTestCases[idx], "expected", PyNone).t = "none"

\* C23: a case that expects None is recorded as passed exactly when the
\* value the call returned is None, whether the case is order-sensitive or
\* not.
C23_NullExpectedNeedsNull ==
    [][ReturnedForNullExpected
         => /\ Len(testResults') = Len(testResults) + 1
            /\ testResults'[Len(testResults')].status = "pass"
                  <=> outcome.d.result.t = "none"]_vars

\* An order-insensitive case that expects None got None, passed and earned
\* its weight.
C23_Witness ==
    \E i \in NullExpectedOutcomes :
        /\ ~Get(allTestCases[i], "ordered", TRUE)
        /\ testResults[i].actual = PyNone
        /\ testResults[i].status = "pass"
        /\ earnedWeight >= testResults[i].weight

\* ------------------------------------------------------------------------
\* Properties of the pipeline across requests
\* ------------------------------------------------------------------------

\* C24: the second evaluation of the same submission against the same
\* problem, its children behaving as they did the first time, returns the
\* same outcomes, the same analyser results and the same report.
C24_SecondRunIdentical ==
    (pc = "responded" /\ prevRun.valid)
        => /\ result = prevRun.result
           /\ complexity = prevRun.complexity
           /\ style = prevRun.style
           /\ security = prevRun.security
           /\ report = prevRun.report

\* The second request was answered after a first one in which a case
\* passed and another did not.
C24_Witness ==
    /\ pc = "responded"
    /\ prevRun.valid
    /\ Len(prevRun.result.testResults) = 2
    /\ prevRun.result.passed = 1
    /\ prevRun.report.built
    /\ report.built
    /\ report.recommendations # <<>>

\* What _runInSandbox returns for case i of a scripted submission.
SoloOutcome(code, i) ==
    IF code.behaves[i].hangs THEN TimeoutResult ELSE SandboxResult(code.behaves[i].out)

\* The outcomes of a scripted submission that is evaluated alone.
SoloResults(p, code) ==
    [i \in 1..Len(AllCases(p)) |-> TestOutcome(AllCases(p)[i], SoloOutcome(code, i))]

\* The report of a scripted submission that is evaluated alone.
SoloReport(p, code) ==
    LET results == SoloResults(p, code)
        alone   == [returned    |-> TRUE,
                    score       |-> ScoreOf(WeightSum(results, {"pass"}), WeightTotal(results)),
                    passed      |-> PassCount(results),
                    total       |-> Len(results),
                    testResults |-> results]
    IN  ("built" :> TRUE)
        @@ buildReport(alone, runComplexityEvaluation(code), runStyleEvaluation(code),
                       runSecurityEvaluation(code))

\* C25: however the steps of two requests interleave, the report of each is
\* the report its submission gets when it is evaluated alone, and the
\* problem the two share is never written to.
C25_RequestsDoNotInterfere ==
    /\ problem \in PipelineProblems
    /\ report.built => report = SoloReport(problem, submittedCode)
    /\ peer.locals.report.built
         => peer.locals.report = SoloReport(problem, peer.locals.submittedCode)

\* Both requests were answered, with different reports, for a problem of
\* two cases.
C25_Witness ==
    /\ peer.waiting
    /\ report.built
    /\ peer.locals.report.built
    /\ report.overallScore # peer.locals.report.overallScore
    /\ Len(report.dimensions.correctness.testResults) = 2
    /\ Len(peer.locals.report.dimensions.correctness.testResults) = 2

\* ------------------------------------------------------------------------
\* The documented example testCaseExamples/problem1/p1PartialScore.py
\* ------------------------------------------------------------------------

\* The tree is that of the example's twoSum: one function, in it a for
\* loop, in that a for loop, in that an if.
IsTwoSumPartial(t) ==
    /\ Len(t) = 4
    /\ t[1].kind = "FunctionDef" /\ t[1].level = 1
    /\ t[2].kind = "For" /\ t[2].level = 2
    /\ t[3].kind = "For" /\ t[3].level = 3
    /\ t[4].kind = "If" /\ t[4].level = 4

\* C26: the example (cyclomatic count 4, nesting depth 3) gets complexity
\* score 60 and a warning about its nesting depth, as its docstring says.
C26_PartialScoreExample ==
    (complexity # Unbound /\ submittedCode.parses /\ IsTwoSumPartial(submittedCode.tree))
        => /\ complexity.functions[1].cyclomaticScore = 4
           /\ complexity.functions[1].maxNestDepth = 3
           /\ complexity.score = 60
           /\ \E k \in 1..Len(complexity.warnings) :
                  complexity.warnings[k].about = "deep nesting"

\* ------------------------------------------------------------------------
\* Properties of the recorded outcomes
\* ------------------------------------------------------------------------

\* len("Could not parse output: ")
PrefixLength == 24

\* C27: the failure detail of an outcome with status error has at most
\* MAX_OUTPUT_CHARS characters of the child's output after a fixed prefix,
\* whether stdout was empty, its last line was no JSON, or the driver
\* reported an exception.
C27_ErrorDetailBounded ==
    \A i \in 1..Len(testResults) :
        testResults[i].status = "error"
            => testResults[i].error.len <= PrefixLength + MAX_OUTPUT_CHARS

\* C28: an outcome with status error or timeout has no actual value and has
\* a failure detail; an outcome with status pass or fail has no failure
\* detail.
C28_ActualAndDetailFollowStatus ==
    \A i \in 1..Len(testResults) :
        /\ testResults[i].status \in {"error", "timeout"}
              => testResults[i].actual = PyNone /\ testResults[i].error # NoDetail
        /\ testResults[i].status \in {"pass", "fail"} => testResults[i].error = NoDetail

\* C29: between two passes of the loop and after the last one, earnedWeight
\* is the sum of the weights of the outcomes with status pass and
\* totalWeight the sum of the weights of all outcomes; in the returned
\* result, passed counts the outcomes with status pass and lies between 0
\* and total.
C29_AccumulatorsFollowOutcomes ==
    /\ pc \in {"loop", "done"}
          => /\ earnedWeight = WeightSum(testResults, {"pass"})
             /\ totalWeight = WeightTotal(testResults)
             /\ WeightSum(testResults, {"fail", "error", "timeout"}) + earnedWeight
                    <= totalWeight
    /\ result.returned
          => /\ result.passed = PassCount(result.testResults)
             /\ 0 <= result.passed
             /\ result.passed <= result.total

\* ------------------------------------------------------------------------
\* Properties of the style part of the report
\* ------------------------------------------------------------------------

\* The entries of the report's recommendation list that come from the style
\* violations.
StyleEntries ==
    SelectSeq(report.recommendations, LAMBDA r : r.source = "[Style]")

\* C30: in every report of a parsing submission, the style violations have
\* no key bareExcept; every handler without a type and every typed handler
\* whose body is a single pass has exactly one violation under emptyExcept
\* (a handler without a type whose body is a single pass too); and at most
\* three recommendations come from style violations, none of them from a
\* category bareExcept.
C30_NoBareExceptCategory ==
    (report.built /\ pc = "responded") =>
        LET violations == report.dimensions.style.violations
            flagged    == NodesWhere(LAMBDA n : n.kind = "ExceptHandler"
                                                  /\ (~n.typed \/ n.justPass))
        IN  /\ "bareExcept" \notin DOMAIN violations
            /\ submittedCode.parses
                  => /\ flagged = 0 <=> "emptyExcept" \notin DOMAIN violations
                     /\ flagged > 0 => Len(violations.emptyExcept) = flagged
            /\ Len(StyleEntries) <= 3
            /\ \A k \in 1..Len(StyleEntries) :
                  \E c \in DOMAIN violations \ {"bareExcept"} :
                      StyleEntries[k].item = violations[c][1]

\* A report for a function without docstring that has a mutable default
\* and a handler without a type whose body is a single pass: one violation
\* under emptyExcept and three style recommendations.
C30_Witness ==
    /\ report.built
    /\ pc = "responded"
    /\ \E i \in 1..Len(submittedCode.tree) :
          /\ submittedCode.tree[i].kind = "ExceptHandler"
          /\ ~submittedCode.tree[i].typed
          /\ submittedCode.tree[i].justPass
    /\ Len(report.dimensions.style.violations.emptyExcept) = 1
    /\ Len(StyleEntries) = 3

====
